---- MODULE Spec2Model ----
(***************************************************************************)
(* A model of the IoC extractor (mufteev/ioc_extractor_docx):              *)
(*   - ioc/extractor.py : IoCExtractor (rule list, extract,                *)
(*                        extract_from_files), ExtractionResult            *)
(*   - ioc/normalizer.py: IoC, IoCNormalizer.refang                        *)
(* Strings the normalizer works on are sequences of one-character strings. *)
(* Extraction rules are plug-ins: what a rule yields for a document, and   *)
(* whether it raises, is chosen by the environment one step at a time.     *)
(***************************************************************************)
EXTENDS Integers, Sequences, FiniteSets, TLC

VARIABLES
    rules,          \* IoCExtractor._rules: the rule objects [name], in list order
    use_default_rules, \* the argument the extractor was constructed with
    history,        \* history: the add_rule / remove_rule calls made so far
    used,           \* history: yields and raises during the running public call
    mode,           \* which public call is running: none / extract / extract_from_files
    pc,             \* position inside extract
    filepath,       \* extract: the filepath argument
    pass_unknown,   \* extract: the pass_unknown argument
    result,         \* extract: the ExtractionResult being built
    seen_iocs,      \* extract: the dedup set of (value, type) keys
    ri,             \* extract: index in _rules of the rule being run
    log,            \* history: what the rules did during the current extract call
    filepaths,      \* extract_from_files: the paths still to process
    results,        \* extract_from_files: the dict being built
    docs,           \* the environment: what the rules do on each readable document
    refang_in,      \* refang: the value argument, as the caller composes it
    refang_out,     \* refang: the returned (result, was_defanged), once called
    nc_in,          \* classify / normalize_and_classify: the value argument
    nc_out,         \* ... and what the call returned, once called
    lac_paragraphs, \* ListAfterColonRule.extract: the texts of document.paragraphs
    lac_i,          \* ... its index i (0-based, as in the source)
    lac_context,    \* ... its local context: the header of the open list
    lac_pc,         \* ... where it stands: outer loop, inner loop, returned
    lac_yielded,    \* history: the paragraphs it yielded, with the records
    tah_elements,   \* TableAfterHeaderRule.extract: the body elements in order
    tah_i,          \* ... index i of its outer loop (0-based)
    tah_j,          \* ... index j of the search for the next table
    tah_context,    \* ... its local context: the header's text
    tah_pc,         \* ... where it stands: outer loop, search, returned
    tah_yielded,    \* history: header, table and records of every table extracted
    rx_paragraphs,  \* RegexPatternRule.extract: the texts of document.paragraphs
    rx_full_text,   \* ... its local full_text
    rx_matches,     \* ... what the finditer iterators give, pattern after pattern
    rx_k,           \* ... the number of matches taken from them so far
    rx_seen,        \* ... its local seen
    rx_pc,          \* ... where it stands: idle, sweep, returned
    rx_yielded      \* history: the matches it yielded a record for, with the record

vars == <<rules, use_default_rules, history, used, mode, pc, filepath, pass_unknown, result,
          seen_iocs, ri, log, filepaths, results, docs,
          refang_in, refang_out, nc_in, nc_out,
          lac_paragraphs, lac_i, lac_context, lac_pc, lac_yielded,
          tah_elements, tah_i, tah_j, tah_context, tah_pc, tah_yielded,
          rx_paragraphs, rx_full_text, rx_matches, rx_k, rx_seen, rx_pc, rx_yielded>>

ruleVars == <<rules, use_default_rules, history>>
callVars == <<mode, pc, filepath, pass_unknown, result, seen_iocs, ri, log,
              filepaths, results, docs>>
refangVars == <<refang_in, refang_out>>
normVars == <<nc_in, nc_out>>
listVars == <<lac_paragraphs, lac_i, lac_context, lac_pc, lac_yielded>>
tableVars == <<tah_elements, tah_i, tah_j, tah_context, tah_pc, tah_yielded>>
\* the variables of the units exercised on their own: the normalizer's
\* functions and the scans of the built-in rules
regexVars == <<rx_paragraphs, rx_full_text, rx_matches, rx_k, rx_seen, rx_pc, rx_yielded>>
unitVars == <<refangVars, normVars, listVars, tableVars, regexVars>>

----------------------------------------------------------------------------
(* Bounds of the model *)

\* add_rule / remove_rule calls made on one extractor: when only the rule list
\* is exercised, and when documents are extracted as well
MaxRuleOps == 3
MaxRuleOpsExtract == 1
\* records the rules yield, and rules that raise, during one public call
MaxYield == 2
MaxFault == 1
\* paths handed to one extract_from_files call
MaxBatch == 2
\* custom rules handed to extract_iocs_from_files
MaxCustomRules == 1
\* pieces of text a string handed to refang is composed of
MaxPieces == 3
\* pieces appended to the start of a value handed to classify or
\* normalize_and_classify
MaxValuePieces == 2
\* paragraphs of a document the list rule scans
MaxParagraphs == 4
\* body elements of a document the table rule scans
MaxElements == 4
\* paragraphs of a document the regex rule sweeps
MaxSweepParagraphs == 3

----------------------------------------------------------------------------
(* ioc/normalizer.py: IoCType and IoC *)

IoCType == {"HASH_MD5", "HASH_SHA1", "HASH_SHA256", "HASH_SHA512", "URL",
            "DOMAIN", "IP_ADDRESS", "EMAIL", "FILE_PATH", "REGISTRY_KEY",
            "CVE", "UNKNOWN"}

\* IoC(value, ioc_type) as a rule builds it: rule_extracted keeps its default ""
IoC(value, ioc_type) ==
    [value |-> value, ioc_type |-> ioc_type, rule_extracted |-> ""]

\* the dedup key of extract, also what IoC.__eq__ / __hash__ compare
key(ioc) == <<ioc.value, ioc.ioc_type>>

\* A string is a sequence of one-character strings.
\* str.lower() of one character, for the letters the IGNORECASE patterns name
lower_char(c) ==
    CASE c = "D" -> "d" [] c = "O" -> "o" [] c = "T" -> "t" [] c = "A" -> "a"
      [] OTHER -> c

\* DEFANG_PATTERNS: (pattern, replacement, re.IGNORECASE?); every pattern is
\* a literal text once its escapes are read
DefangPattern(pattern, replacement, ignorecase) ==
    [pattern |-> pattern, replacement |-> replacement, ignorecase |-> ignorecase]

DEFANG_PATTERNS ==
    << DefangPattern(<<"h","x","x","p","s">>, <<"h","t","t","p","s">>, FALSE),
       DefangPattern(<<"h","x","x","p">>,     <<"h","t","t","p">>,     FALSE),
       DefangPattern(<<"[",":","]">>,         <<":">>,                 FALSE),
       DefangPattern(<<"[",".","]">>,         <<".">>,                 FALSE),
       DefangPattern(<<"[","d","o","t","]">>, <<".">>,                 TRUE),
       DefangPattern(<<"[","@","]">>,         <<"@">>,                 FALSE),
       DefangPattern(<<"[","a","t","]">>,     <<"@">>,                 TRUE) >>

\* the pattern matches the text starting at position i
match_at(string, i, pattern, ignorecase) ==
    /\ i + Len(pattern) - 1 <= Len(string)
    /\ \A k \in 1..Len(pattern) :
           IF ignorecase THEN lower_char(string[i + k - 1]) = pattern[k]
           ELSE string[i + k - 1] = pattern[k]

\* re.sub(pattern, replacement, string, flags): the leftmost non-overlapping
\* matches are replaced, scanning from position i; replaced text is not
\* rescanned. One step per match: the text up to the next match is copied.
RECURSIVE sub_from(_, _, _, _, _)
sub_from(string, i, pattern, replacement, ignorecase) ==
    LET matches == { k \in i..Len(string) : match_at(string, k, pattern, ignorecase) }
    IN IF matches = {} THEN SubSeq(string, i, Len(string))
       ELSE LET m == CHOOSE k \in matches : \A n \in matches : k <= n
            IN SubSeq(string, i, m - 1) \o replacement \o
               sub_from(string, m + Len(pattern), pattern, replacement, ignorecase)

re_sub(pattern, replacement, string, ignorecase) ==
    sub_from(string, 1, pattern, replacement, ignorecase)

\* the loop of refang over DEFANG_PATTERNS from entry k on (res is the local
\* `result`)
RECURSIVE refang_loop(_, _, _)
refang_loop(k, res, was_defanged) ==
    IF k > Len(DEFANG_PATTERNS) THEN <<res, was_defanged>>
    ELSE LET pt == DEFANG_PATTERNS[k]
             new_result == re_sub(pt.pattern, pt.replacement, res, pt.ignorecase)
         IN IF new_result # res
            THEN refang_loop(k + 1, new_result, TRUE)
            ELSE refang_loop(k + 1, res, was_defanged)

\* IoCNormalizer.refang(value) -> (result, was_defanged)
refang(value) == refang_loop(1, value, FALSE)

\* The texts a value is composed of: the defang tokens, and the characters
\* they are made of
Pieces ==
    { <<"h","x","x","p","s">>, <<"h","x","x","p">>, <<"[",":","]">>,
      <<"[",".","]">>, <<"[","D","o","t","]">>, <<"[","@","]">>,
      <<"[","a","T","]">>, <<"[">>, <<"]">>, <<".">>, <<"x">>, <<"e">> }

----------------------------------------------------------------------------
(* ioc/normalizer.py: str methods and character classes of the patterns *)

Digits == {"0", "1", "2", "3", "4", "5", "6", "7", "8", "9"}
LowerLetters ==
    {"a", "b", "c", "d", "e", "f", "g", "h", "i", "j", "k", "l", "m",
     "n", "o", "p", "q", "r", "s", "t", "u", "v", "w", "x", "y", "z"}
UpperLetters ==
    {"A", "B", "C", "D", "E", "F", "G", "H", "I", "J", "K", "L", "M",
     "N", "O", "P", "Q", "R", "S", "T", "U", "V", "W", "X", "Y", "Z"}
\* [a-zA-Z], [a-zA-Z0-9], [a-fA-F0-9]
Letters == LowerLetters \cup UpperLetters
Alnum == Letters \cup Digits
HexDigits == Digits \cup {"a", "b", "c", "d", "e", "f", "A", "B", "C", "D", "E", "F"}
\* what str.strip() removes and \s matches, among the characters in use
Whitespace == {" ", "\t", "\n", "\r", "\f"}

\* every character of the text is in the class
all_in(string, class) == \A k \in 1..Len(string) : string[k] \in class

\* str.rstrip(chars), str.lstrip(chars), str.strip()
RECURSIVE rstrip(_, _)
rstrip(string, chars) ==
    IF string # <<>> /\ string[Len(string)] \in chars
    THEN rstrip(SubSeq(string, 1, Len(string) - 1), chars)
    ELSE string

RECURSIVE lstrip(_, _)
lstrip(string, chars) ==
    IF string # <<>> /\ string[1] \in chars
    THEN lstrip(Tail(string), chars)
    ELSE string

strip(string) == lstrip(rstrip(string, Whitespace), Whitespace)

\* str.lower() of one character: the ASCII letters
ascii_lower(c) ==
    CASE c = "A" -> "a" [] c = "B" -> "b" [] c = "C" -> "c" [] c = "D" -> "d"
      [] c = "E" -> "e" [] c = "F" -> "f" [] c = "G" -> "g" [] c = "H" -> "h"
      [] c = "I" -> "i" [] c = "J" -> "j" [] c = "K" -> "k" [] c = "L" -> "l"
      [] c = "M" -> "m" [] c = "N" -> "n" [] c = "O" -> "o" [] c = "P" -> "p"
      [] c = "Q" -> "q" [] c = "R" -> "r" [] c = "S" -> "s" [] c = "T" -> "t"
      [] c = "U" -> "u" [] c = "V" -> "v" [] c = "W" -> "w" [] c = "X" -> "x"
      [] c = "Y" -> "y" [] c = "Z" -> "z" [] OTHER -> c

\* str.lower()
str_lower(string) == [k \in 1..Len(string) |-> ascii_lower(string[k])]

\* str.startswith(prefix), with re.IGNORECASE when asked
startswith(string, prefix, ignorecase) ==
    /\ Len(prefix) <= Len(string)
    /\ LET head == SubSeq(string, 1, Len(prefix))
       IN IF ignorecase THEN str_lower(head) = str_lower(prefix) ELSE head = prefix

\* the text from position k on (1-based)
from(string, k) == SubSeq(string, k, Len(string))

\* str.split(sep) for a one-character separator
RECURSIVE split_from(_, _, _)
split_from(string, sep, k) ==
    LET seps == { n \in k..Len(string) : string[n] = sep }
    IN IF seps = {} THEN <<SubSeq(string, k, Len(string))>>
       ELSE LET m == CHOOSE n \in seps : \A j \in seps : n <= j
            IN <<SubSeq(string, k, m - 1)>> \o split_from(string, sep, m + 1)

split(string, sep) == split_from(string, sep, 1)

\* the text n times over
RECURSIVE Rep(_, _)
Rep(string, n) == IF n = 0 THEN <<>> ELSE string \o Rep(string, n - 1)

----------------------------------------------------------------------------
(* ioc/normalizer.py: IoCNormalizer.PATTERNS, classify, normalize_and_classify *)

\* `$` of a pattern compiled without re.MULTILINE matches at the end of the
\* string and also just before a line feed that ends the string: the texts
\* the part of the pattern before `$` may have matched
before_dollar(value) ==
    {value} \cup
    (IF value # <<>> /\ value[Len(value)] = "\n"
     THEN {SubSeq(value, 1, Len(value) - 1)} ELSE {})

\* [a-fA-F0-9]{n}
hex_n(body, n) == Len(body) = n /\ all_in(body, HexDigits)

\* (?:25[0-5]|2[0-4][0-9]|[01]?[0-9][0-9]?)
octet(g) ==
    /\ all_in(g, Digits)
    /\ \/ Len(g) = 3 /\ g[1] = "2" /\ g[2] = "5" /\ g[3] \in {"0", "1", "2", "3", "4", "5"}
       \/ Len(g) = 3 /\ g[1] = "2" /\ g[2] \in {"0", "1", "2", "3", "4"}
       \/ Len(g) = 3 /\ g[1] \in {"0", "1"}
       \/ Len(g) \in {1, 2}

\* (?:octet\.){3}octet
ip_body(body) ==
    LET groups == split(body, ".")
    IN Len(groups) = 4 /\ \A k \in 1..4 : octet(groups[k])

\* CVE-\d{4}-\d{4,} with re.IGNORECASE (\d over the ASCII digits)
cve_body(body) ==
    /\ startswith(body, <<"C", "V", "E", "-">>, TRUE)
    /\ LET rest == from(body, 5)
       IN /\ Len(rest) >= 9
          /\ all_in(SubSeq(rest, 1, 4), Digits)
          /\ rest[5] = "-"
          /\ all_in(from(rest, 6), Digits)

\* [a-zA-Z0-9._%+-]+@[a-zA-Z0-9.-]+\.[a-zA-Z]{2,}
email_body(body) ==
    \E a \in 2..Len(body) :
        /\ body[a] = "@"
        /\ all_in(SubSeq(body, 1, a - 1), Alnum \cup {".", "_", "%", "+", "-"})
        /\ LET rest == from(body, a + 1)
           IN \E d \in 2..Len(rest) :
                  /\ rest[d] = "."
                  /\ all_in(SubSeq(rest, 1, d - 1), Alnum \cup {".", "-"})
                  /\ Len(rest) - d >= 2
                  /\ all_in(from(rest, d + 1), Letters)

\* (?:hxxps?|https?|ftp)
Schemes == { <<"h", "x", "x", "p", "s">>, <<"h", "x", "x", "p">>, <<"h", "t", "t", "p", "s">>, <<"h", "t", "t", "p">>, <<"f", "t", "p">> }

\* [^\s;.]+(?:\.[^\s;.]+)*
url_host(h) ==
    LET segments == split(h, ".")
    IN \A k \in 1..Len(segments) :
           /\ segments[k] # <<>>
           /\ \A n \in 1..Len(segments[k]) :
                  segments[k][n] \notin Whitespace \cup {";"}

\* (?:/[^\s]*)?
url_path(t) ==
    t = <<>> \/ (t[1] = "/" /\ \A n \in 1..Len(t) : t[n] \notin Whitespace)

\* scheme://host path, with re.IGNORECASE
url_body(body) ==
    \E scheme \in Schemes :
        /\ startswith(body, scheme \o <<":", "/", "/">>, TRUE)
        /\ LET rest == from(body, Len(scheme) + 4)
           IN \E k \in 1..Len(rest) :
                  url_host(SubSeq(rest, 1, k)) /\ url_path(from(rest, k + 1))

\* [a-zA-Z0-9](?:[a-zA-Z0-9-]{0,61}[a-zA-Z0-9])?
domain_label(l) ==
    /\ Len(l) \in 1..63
    /\ l[1] \in Alnum
    /\ l[Len(l)] \in Alnum
    /\ all_in(l, Alnum \cup {"-"})

\* (?:label(?:\[\.\]|\.)){1,}[a-zA-Z]{2,} from position k on, n labels read
RECURSIVE domain_from(_, _, _)
domain_from(body, k, n) ==
    \/ /\ n >= 1
       /\ Len(body) - k + 1 >= 2
       /\ all_in(from(body, k), Letters)
    \/ \E e \in k..(Len(body) - 1) :
           \/ /\ body[e + 1] = "."
              /\ domain_label(SubSeq(body, k, e))
              /\ domain_from(body, e + 2, n + 1)
           \/ /\ match_at(body, e + 1, <<"[", ".", "]">>, FALSE)
              /\ domain_label(SubSeq(body, k, e))
              /\ domain_from(body, e + 4, n + 1)

domain_body(body) == domain_from(body, 1, 0)

\* the types PATTERNS has a pattern for
PatternTypes ==
    {"HASH_MD5", "HASH_SHA1", "HASH_SHA256", "HASH_SHA512", "IP_ADDRESS",
     "EMAIL", "CVE", "URL", "DOMAIN"}

\* cls.PATTERNS[ioc_type].match(value): every pattern is ^...$
PATTERNS(ioc_type, value) ==
    \E body \in before_dollar(value) :
        CASE ioc_type = "HASH_MD5" -> hex_n(body, 32)
          [] ioc_type = "HASH_SHA1" -> hex_n(body, 40)
          [] ioc_type = "HASH_SHA256" -> hex_n(body, 64)
          [] ioc_type = "HASH_SHA512" -> hex_n(body, 128)
          [] ioc_type = "IP_ADDRESS" -> ip_body(body)
          [] ioc_type = "EMAIL" -> email_body(body)
          [] ioc_type = "CVE" -> cve_body(body)
          [] ioc_type = "URL" -> url_body(body)
          [] ioc_type = "DOMAIN" -> domain_body(body)

\* line 153, given to a path-like text as if FILE_PATH had a pattern
no_match_file_path(value) ==
    IF \E k \in 1..Len(value) : value[k] = "\\" THEN "FILE_PATH" ELSE "UNKNOWN"

\* line 153: return IoCType.UNKNOWN
no_match(value) == "UNKNOWN"

\* the two loops of classify: the first type of the list whose pattern matches
RECURSIVE classify_loop(_, _)
classify_loop(types, value) ==
    IF types = <<>> THEN no_match(value)
    ELSE IF PATTERNS(Head(types), value) THEN Head(types)
         ELSE classify_loop(Tail(types), value)

\* IoCNormalizer.classify(value)
classify(value) ==
    classify_loop(<<"HASH_MD5", "HASH_SHA1", "HASH_SHA256", "HASH_SHA512">> \o
                  <<"CVE", "IP_ADDRESS", "EMAIL", "URL", "DOMAIN">>, value)

\* the IoC dataclass with all its fields, __post_init__ applied
IoC_post_init(value, ioc_type, source_context, defanged, original_value) ==
    [value |-> value, ioc_type |-> ioc_type, source_context |-> source_context,
     defanged |-> defanged,
     original_value |-> IF original_value = <<>> THEN value ELSE original_value,
     rule_extracted |-> ""]

\* line 179, with the flag dropped
defanged_never(refanged) == FALSE

\* line 179: defanged=was_defanged
defanged_flag(refanged) == refanged[2]

\* IoCNormalizer.normalize_and_classify(value, context)
normalize_and_classify(value, context) ==
    LET original == strip(value)
        cleaned == rstrip(original, {";", "."})
        refanged == refang(cleaned)
        normalized == refanged[1]
    IN IoC_post_init(normalized, classify(normalized), context,
                     defanged_flag(refanged), original)

----------------------------------------------------------------------------
(* The environment: the file system and what rules may yield *)

\* filepath arguments: [stem, suffix]
Paths == { [stem |-> "a",     suffix |-> ".docx"],
           [stem |-> "b",     suffix |-> ".DOCX"],
           [stem |-> "gone",  suffix |-> ".docx"],
           [stem |-> "notes", suffix |-> ".txt"],
           [stem |-> "bad",   suffix |-> ".docx"] }

\* Path.exists()
exists(p) == p.stem # "gone"

\* str.lower() on the suffixes in use
lower(s) == IF s = ".DOCX" THEN ".docx" ELSE s

\* DocxDocument(str(filepath)) returns instead of raising
DocxDocumentOpens(p) == p.stem # "bad"

\* values and types of the records a rule (built-in or custom) may yield
Values == {"https://sub.example.com:8443/a/b?x=1", "T1059"}
YieldTypes == {"URL", "UNKNOWN"}
Yieldable == { IoC(v, t) : v \in Values, t \in YieldTypes }
                 \ {IoC("T1059", "URL")}

\* names a rule may carry: the three built-in ones and the custom example
RuleNames == {"list_after_colon", "table_after_header", "regex_pattern",
              "mitre_attck"}

\* the rules a user adds or removes between extractions: the custom example,
\* and a RegexPatternRule built with patterns of the user's own
CustomRuleNames == {"mitre_attck", "regex_pattern"}

NoPath == [stem |-> "", suffix |-> ""]

\* the paths extract gets a document for
ReadablePaths ==
    { p \in Paths : exists(p) /\ lower(p.suffix) = ".docx" /\ DocxDocumentOpens(p) }

\* What rule.extract(document) does: the records its generator yields, in
\* order, and whether it then raises instead of finishing.
Script(yields, raises) == [yields |-> yields, raises |-> raises]

\* A document on which the rules' behaviour is left open (chosen as they run)
FreeDocument ==
    [free |-> TRUE, script |-> [n \in RuleNames |-> Script(<<>>, FALSE)]]

\* Documents on which each rule's behaviour is fixed by the content.
\* ReportA: the list rule and the sweep find the same URL, the table rule
\* finds it too and then fails on a malformed table.
ReportA ==
    [free |-> FALSE,
     script |-> [n \in RuleNames |->
        CASE n = "list_after_colon" ->
                 Script(<<IoC("https://sub.example.com:8443/a/b?x=1", "URL"),
                          IoC("T1059", "UNKNOWN")>>, FALSE)
          [] n = "table_after_header" ->
                 Script(<<IoC("https://sub.example.com:8443/a/b?x=1", "URL")>>, TRUE)
          [] n = "regex_pattern" ->
                 Script(<<IoC("https://sub.example.com:8443/a/b?x=1", "URL"),
                          IoC("https://sub.example.com:8443/a/b?x=1", "UNKNOWN")>>,
                        FALSE)
          [] OTHER -> Script(<<IoC("T1059", "UNKNOWN")>>, FALSE)]]

\* ReportB: only the sweep and the custom rule find anything; no rule fails.
ReportB ==
    [free |-> FALSE,
     script |-> [n \in RuleNames |->
        CASE n = "list_after_colon" -> Script(<<>>, FALSE)
          [] n = "table_after_header" -> Script(<<>>, FALSE)
          [] n = "regex_pattern" ->
                 Script(<<IoC("https://sub.example.com:8443/a/b?x=1", "URL")>>, FALSE)
          [] OTHER -> Script(<<IoC("T1059", "UNKNOWN"),
                               IoC("T1059", "UNKNOWN")>>, FALSE)]]

\* ReportC: nothing to find.
ReportC ==
    [free |-> FALSE, script |-> [n \in RuleNames |-> Script(<<>>, FALSE)]]

FixedDocuments == {ReportA, ReportB, ReportC}

----------------------------------------------------------------------------
(* ioc/extractor.py: ExtractionResult *)

ExtractionResult(p) == [filepath |-> p, iocs |-> <<>>, errors |-> <<>>]

NoResult == [filepath |-> NoPath, iocs |-> <<>>, errors |-> <<>>]

\* (mutant) one result object shared by every entry of the dict
SetItem_shared(d, k, v) == [x \in (DOMAIN d) \cup {k} |-> v]

\* dict item assignment d[k] = v
SetItem(d, k, v) == (k :> v) @@ d

EmptyDict == << >>

\* the error strings extract appends, by what they say
Error(kind, rule_name) == [kind |-> kind, rule |-> rule_name]

----------------------------------------------------------------------------
(* ioc/extractor.py: IoCExtractor.__init__, add_rule, remove_rule, get_rules *)

\* a rule object, as far as the coordinator looks at it: its name property
Rule(name) == [name |-> name]

\* __init__: the list extended with the three built-in rules
DefaultRules ==
    <<Rule("list_after_colon"), Rule("table_after_header"), Rule("regex_pattern")>>

init_rules(use_default) == IF use_default THEN DefaultRules ELSE <<>>

\* self._rules.append(rule)
add_rule_list(rs, rule) == Append(rs, rule)

\* (mutant) list.remove semantics: only the first rule with that name goes
remove_first_only(rs, rule_name) ==
    LET named == { k \in 1..Len(rs) : rs[k].name = rule_name }
    IN IF named = {} THEN rs
       ELSE LET f == CHOOSE k \in named : \A j \in named : k <= j
            IN [n \in 1..(Len(rs) - 1) |-> IF n < f THEN rs[n] ELSE rs[n + 1]]

\* [r for r in self._rules if r.name != rule_name]
remove_rule_list(rs, rule_name) ==
    LET keep(r) == r.name # rule_name IN SelectSeq(rs, keep)

\* get_rules(): [r.name for r in self._rules]
get_rules == [k \in 1..Len(rules) |-> rules[k].name]

add_rule(rule) ==
    /\ mode = "none"
    /\ rules' = add_rule_list(rules, rule)
    /\ history' = Append(history, [op |-> "add_rule", name |-> rule.name])
    /\ UNCHANGED <<use_default_rules, used, callVars, unitVars>>

remove_rule(rule_name) ==
    /\ mode = "none"
    /\ rules' = remove_rule_list(rules, rule_name)
    /\ history' = Append(history, [op |-> "remove_rule", name |-> rule_name])
    /\ UNCHANGED <<use_default_rules, used, callVars, unitVars>>

----------------------------------------------------------------------------
(* ioc/extractor.py: IoCExtractor.extract *)

\* where extract goes once the rule at index k is finished: the next rule of
\* the for loop, or the return statement
after_rule(k) == IF k < Len(rules) THEN "in_rule" ELSE "return"

\* (mutant) the exception of a rule ends the loop over the rules
after_raise_aborts(k) == "return"

\* where extract goes once the rule at index k has raised: the except clause
\* records the error and the for loop goes on (lines 169-170)
after_raise(k) == after_rule(k)

\* (mutant) the suffix is not looked at
file_error_no_suffix(p) ==
    IF ~exists(p) THEN "not_found"
    ELSE IF ~DocxDocumentOpens(p) THEN "open_failed"
    ELSE ""

\* lines 140-152: the three file-level checks, in the code's order; "" when
\* the document opens
file_error(p) ==
    IF ~exists(p) THEN "not_found"
    ELSE IF ~(lower(p.suffix) = ".docx") THEN "bad_format"
    ELSE IF ~DocxDocumentOpens(p) THEN "open_failed"
    ELSE ""

\* lines 137-155: the result object, the file-level checks, the dedup set
extract_begin(p, pu) ==
    /\ filepath' = p
    /\ pass_unknown' = pu
    /\ log' = <<>>
    /\ seen_iocs' = {}
    /\ IF file_error(p) # "" THEN
           /\ result' = [ExtractionResult(p) EXCEPT
                            !.errors = <<Error(file_error(p), "")>>]
           /\ pc' = "return"
           /\ ri' = 0
       ELSE
           /\ result' = ExtractionResult(p)
           /\ pc' = after_rule(0)
           /\ ri' = 1

\* (mutant) UNKNOWN records are never dropped
filtered_never(ioc, pu) == FALSE

\* lines 160-161: the record is dropped before the dedup
filtered(ioc, pu) == ~pu /\ ioc.ioc_type = "UNKNOWN"

\* line 167: ioc.rule_extracted = rule.name
attributed(ioc, rule) == [ioc EXCEPT !.rule_extracted = rule.name]

\* (mutant) the key is never added to the dedup set
dedup_seen_forgets(seen, ioc) == seen

\* lines 164-168: what one yielded record does to (seen_iocs, result.iocs)
dedup_seen(seen, ioc) == seen \cup {key(ioc)}

\* (mutant) a duplicate takes over the attribution of the registered record
dedup_iocs_overwrites(iocs, seen, ioc, rule) ==
    IF key(ioc) \notin seen THEN Append(iocs, attributed(ioc, rule))
    ELSE [n \in 1..Len(iocs) |->
             IF key(iocs[n]) = key(ioc) THEN attributed(ioc, rule) ELSE iocs[n]]

\* (mutant) a new record is put in front of the list
dedup_iocs_prepends(iocs, seen, ioc, rule) ==
    IF key(ioc) \notin seen THEN <<attributed(ioc, rule)>> \o iocs ELSE iocs

dedup_iocs(iocs, seen, ioc, rule) ==
    IF key(ioc) \notin seen THEN Append(iocs, attributed(ioc, rule)) ELSE iocs

NothingUsed == [yields |-> 0, raises |-> 0]

\* the locals of extract, once it has returned
extract_done ==
    /\ filepath' = NoPath
    /\ result' = NoResult
    /\ seen_iocs' = {}
    /\ ri' = 0
    /\ log' = <<>>

\* extract(filepath, pass_unknown) called by the user
extract(p, pu) ==
    /\ mode = "none"
    /\ mode' = "extract"
    /\ used' = NothingUsed
    /\ extract_begin(p, pu)
    /\ UNCHANGED <<ruleVars, filepaths, results, docs, unitVars>>

\* the document extract opened, and the running rule's progress on it
document == docs[filepath]

yielded_so_far ==
    LET mine(e) == e.ev = "yield" /\ e.ri = ri IN Len(SelectSeq(log, mine))

rule_script == document.script[rules[ri].name]

may_yield(ioc) ==
    IF document.free THEN used.yields < MaxYield
    ELSE /\ yielded_so_far < Len(rule_script.yields)
         /\ ioc = rule_script.yields[yielded_so_far + 1]

may_return ==
    document.free \/ (yielded_so_far = Len(rule_script.yields) /\ ~rule_script.raises)

may_raise ==
    IF document.free THEN used.raises < MaxFault
    ELSE yielded_so_far = Len(rule_script.yields) /\ rule_script.raises

\* line 159: the running rule's generator yields one record
RuleYields(ioc) ==
    /\ pc = "in_rule"
    /\ may_yield(ioc)
    /\ used' = [used EXCEPT !.yields = @ + 1]
    /\ log' = Append(log, [ev |-> "yield", ri |-> ri, rule |-> rules[ri].name,
                           ioc |-> ioc])
    /\ IF filtered(ioc, pass_unknown) THEN
           UNCHANGED <<seen_iocs, result>>
       ELSE
           /\ seen_iocs' = dedup_seen(seen_iocs, ioc)
           /\ result' = [result EXCEPT
                  !.iocs = dedup_iocs(@, seen_iocs, ioc, rules[ri])]
    /\ UNCHANGED <<ruleVars, mode, pc, filepath, pass_unknown, ri,
                   filepaths, results, docs, unitVars>>

\* line 159: the running rule's generator is exhausted
RuleReturns ==
    /\ pc = "in_rule"
    /\ may_return
    /\ pc' = after_rule(ri)
    /\ ri' = ri + 1
    /\ UNCHANGED <<ruleVars, used, mode, filepath, pass_unknown, result,
                   seen_iocs, log, filepaths, results, docs,
                   unitVars>>

\* lines 169-170: the running rule raises an Exception
RuleRaises ==
    /\ pc = "in_rule"
    /\ may_raise
    /\ used' = [used EXCEPT !.raises = @ + 1]
    /\ log' = Append(log, [ev |-> "raise", ri |-> ri, rule |-> rules[ri].name,
                           ioc |-> IoC("", "UNKNOWN")])
    /\ result' = [result EXCEPT
           !.errors = Append(@, Error("rule", rules[ri].name))]
    /\ pc' = after_raise(ri)
    /\ ri' = ri + 1
    /\ UNCHANGED <<ruleVars, mode, filepath, pass_unknown, seen_iocs,
                   filepaths, results, docs, unitVars>>

\* line 142 / 146 / 152 / 172: return result, to the user
ExtractReturns ==
    /\ pc = "return"
    /\ mode = "extract"
    /\ mode' = "none"
    /\ pc' = "idle"
    /\ pass_unknown' = FALSE
    /\ used' = NothingUsed
    /\ extract_done
    /\ UNCHANGED <<ruleVars, filepaths, results, docs, unitVars>>

----------------------------------------------------------------------------
(* ioc/extractor.py: IoCExtractor.extract_from_files *)

\* the filepaths arguments: lists of at most MaxBatch paths
RECURSIVE SeqsUpTo(_, _)
SeqsUpTo(S, n) ==
    IF n = 0 THEN {<<>>}
    ELSE LET shorter == SeqsUpTo(S, n - 1)
         IN shorter \cup { Append(q, x) : q \in shorter, x \in S }

\* line 188: results = {}
extract_from_files(fps, pu) ==
    /\ used' = NothingUsed
    /\ mode' = "extract_from_files"
    /\ pc' = "for_filepath"
    /\ filepaths' = fps
    /\ pass_unknown' = pu
    /\ results' = EmptyDict
    /\ UNCHANGED <<filepath, result, seen_iocs, ri, log, docs, unitVars>>

\* extractor.extract_from_files(filepaths, pass_unknown) called by the user
CallExtractFromFiles(fps, pu) ==
    /\ mode = "none"
    /\ extract_from_files(fps, pu)
    /\ UNCHANGED ruleVars

\* lines 224-226: for rule in custom_rules: extractor.add_rule(rule)
RECURSIVE add_rules(_, _)
add_rules(rs, custom_rules) ==
    IF custom_rules = <<>> THEN rs
    ELSE add_rules(add_rule_list(rs, Head(custom_rules)), Tail(custom_rules))

\* extract_iocs_from_files(filepaths, custom_rules, pass_unknown): a new
\* extractor with the default rules, the custom rules added, and the call of
\* its extract_from_files
extract_iocs_from_files(fps, custom_rules, pu) ==
    /\ mode = "none"
    /\ use_default_rules' = TRUE
    /\ rules' = add_rules(init_rules(TRUE), custom_rules)
    /\ history' = [n \in 1..Len(custom_rules) |->
                      [op |-> "add_rule", name |-> custom_rules[n].name]]
    /\ extract_from_files(fps, pu)

\* lines 190-192: the next filepath, and the call of extract on it
ForFilepath ==
    /\ mode = "extract_from_files"
    /\ pc = "for_filepath"
    /\ filepaths # <<>>
    /\ extract_begin(Head(filepaths), pass_unknown)
    /\ UNCHANGED <<ruleVars, used, mode, filepaths, results, docs,
                   unitVars>>

\* line 192: extract returns and its result is stored under str(filepath)
StoreResult ==
    /\ mode = "extract_from_files"
    /\ pc = "return"
    /\ results' = SetItem(results, Head(filepaths), result)
    /\ filepaths' = Tail(filepaths)
    /\ pc' = "for_filepath"
    /\ extract_done
    /\ UNCHANGED <<ruleVars, used, mode, pass_unknown, docs, unitVars>>

\* line 194: return results
FilesReturn ==
    /\ mode = "extract_from_files"
    /\ pc = "for_filepath"
    /\ filepaths = <<>>
    /\ mode' = "none"
    /\ pc' = "idle"
    /\ pass_unknown' = FALSE
    /\ used' = NothingUsed
    /\ results' = EmptyDict
    /\ UNCHANGED <<ruleVars, filepath, result, seen_iocs, ri, log, filepaths,
                   docs, unitVars>>

----------------------------------------------------------------------------
(* The extractor's specification *)

NotCalled == <<<<>>, FALSE, FALSE>>

IdleRefang == /\ refang_in = [pieces |-> 0, value |-> <<>>]
              /\ refang_out = NotCalled

\* no call of classify / normalize_and_classify is under way
NoCall == [fn |-> "none"]
IdleNormalizer == /\ nc_in = [pieces |-> 0, value |-> <<>>]
                  /\ nc_out = NoCall

\* the built-in rules are not being run on their own
IdleList == /\ lac_paragraphs = <<>>
            /\ lac_i = 0
            /\ lac_context = <<>>
            /\ lac_pc = "idle"
            /\ lac_yielded = <<>>

IdleRegex == /\ rx_paragraphs = <<>>
             /\ rx_full_text = <<>>
             /\ rx_matches = <<>>
             /\ rx_k = 0
             /\ rx_seen = {}
             /\ rx_pc = "idle"
             /\ rx_yielded = <<>>

IdleTable == /\ tah_elements = <<>>
             /\ tah_i = 0
             /\ tah_j = 0
             /\ tah_context = <<>>
             /\ tah_pc = "idle"
             /\ tah_yielded = <<>>

Init ==
    /\ use_default_rules \in BOOLEAN
    /\ rules = init_rules(use_default_rules)
    /\ history = <<>>
    /\ used = NothingUsed
    /\ mode = "none"
    /\ pc = "idle"
    /\ filepath = NoPath
    /\ pass_unknown = FALSE
    /\ result = NoResult
    /\ seen_iocs = {}
    /\ ri = 0
    /\ log = <<>>
    /\ filepaths = <<>>
    /\ results = EmptyDict
    /\ docs = [p \in ReadablePaths |-> FreeDocument]
    /\ IdleRefang
    /\ IdleNormalizer
    /\ IdleList
    /\ IdleTable
    /\ IdleRegex

Next ==
    \/ \E n \in CustomRuleNames :
           Len(history) < MaxRuleOpsExtract /\ add_rule(Rule(n))
    \/ \E n \in CustomRuleNames :
           Len(history) < MaxRuleOpsExtract /\ remove_rule(n)
    \/ \E p \in Paths, pu \in BOOLEAN : extract(p, pu)
    \/ \E ioc \in Yieldable : RuleYields(ioc)
    \/ RuleReturns
    \/ RuleRaises
    \/ ExtractReturns

Spec == Init /\ [][Next]_vars

\* The rule list alone, under longer sequences of add_rule and remove_rule
NextRules ==
    \/ \E n \in RuleNames : Len(history) < MaxRuleOps /\ add_rule(Rule(n))
    \/ \E n \in RuleNames : Len(history) < MaxRuleOps /\ remove_rule(n)

SpecRules == Init /\ [][NextRules]_vars

\* Batches of files whose content fixes what each rule finds
InitFiles ==
    /\ use_default_rules \in BOOLEAN
    /\ rules = init_rules(use_default_rules)
    /\ history = <<>>
    /\ used = NothingUsed
    /\ mode = "none"
    /\ pc = "idle"
    /\ filepath = NoPath
    /\ pass_unknown = FALSE
    /\ result = NoResult
    /\ seen_iocs = {}
    /\ ri = 0
    /\ log = <<>>
    /\ filepaths = <<>>
    /\ results = EmptyDict
    /\ docs \in [ReadablePaths -> FixedDocuments]
    /\ IdleRefang
    /\ IdleNormalizer
    /\ IdleList
    /\ IdleTable
    /\ IdleRegex

NextFiles ==
    \/ \E fps \in SeqsUpTo(Paths, MaxBatch), pu \in BOOLEAN :
           \E custom_rules \in SeqsUpTo({Rule(n) : n \in CustomRuleNames}, MaxCustomRules) :
               extract_iocs_from_files(fps, custom_rules, pu)
    \/ \E fps \in SeqsUpTo(Paths, MaxBatch), pu \in BOOLEAN :
           CallExtractFromFiles(fps, pu)
    \/ ForFilepath
    \/ \E ioc \in Yieldable : RuleYields(ioc)
    \/ RuleReturns
    \/ RuleRaises
    \/ StoreResult
    \/ FilesReturn

SpecFiles == InitFiles /\ [][NextFiles]_vars

----------------------------------------------------------------------------
(* ioc/normalizer.py: calls of IoCNormalizer.refang *)

\* the caller composes the argument
Compose(piece) ==
    /\ refang_out = NotCalled
    /\ refang_in.pieces < MaxPieces
    /\ refang_in' = [pieces |-> refang_in.pieces + 1,
                     value |-> refang_in.value \o piece]
    /\ UNCHANGED <<ruleVars, used, callVars, refang_out, normVars, listVars, tableVars, regexVars>>

\* refang(value) is called and returns
Refang ==
    /\ refang_out = NotCalled
    /\ refang_out' = LET r == refang(refang_in.value) IN <<r[1], r[2], TRUE>>
    /\ UNCHANGED <<ruleVars, used, callVars, refang_in, normVars, listVars, tableVars, regexVars>>

NextRefang ==
    \/ \E piece \in Pieces : Compose(piece)
    \/ Refang

InitRefang == Init /\ use_default_rules = TRUE

SpecRefang == InitRefang /\ [][NextRefang]_vars

----------------------------------------------------------------------------
(* ioc/normalizer.py: calls of classify and normalize_and_classify *)

\* the extractor, the rules and refang stand still
IdleExtractor ==
    /\ use_default_rules = TRUE
    /\ rules = init_rules(use_default_rules)
    /\ history = <<>>
    /\ used = NothingUsed
    /\ mode = "none"
    /\ pc = "idle"
    /\ filepath = NoPath
    /\ pass_unknown = FALSE
    /\ result = NoResult
    /\ seen_iocs = {}
    /\ ri = 0
    /\ log = <<>>
    /\ filepaths = <<>>
    /\ results = EmptyDict
    /\ docs = [p \in ReadablePaths |-> FreeDocument]

\* n hexadecimal digits, in both letter cases
Hex(n) == SubSeq(Rep(<<"d", "e", "a", "d", "B", "E", "e", "f">>, 17), 1, n)

\* What a value starts with: nothing, hex digits one short of each hash
\* length, and beginnings of the other kinds of indicator
Stems ==
    { <<>>, Hex(31), Hex(39), Hex(63), Hex(127),
      <<"1", ".", "1", ".", "1", ".", "2", "5">>,
      <<"9", "9", "9", "[", ".", "]", "1", "[", ".", "]", "1", "[", ".", "]">>,
      <<"C", "V", "E", "-", "2", "0", "2", "1", "-", "4", "4", "2">>,
      <<"u", "s", "e", "r", "@", "m", "a", "i", "l", ".", "c">>,
      <<"h", "x", "x", "p", "s", "[", ":", "]", "/", "/", "e", "v", "i", "l", "[", ".", "]", "c", "o", "m", "/">>,
      <<"e", "v", "i", "l", "[", ".", "]", "c", "o">>,
      <<"C", ":", "\\">>,
      <<"H", "K", "L", "M", "\\", "R", "u", "n">> }

\* ... and how it goes on
ValuePieces ==
    { <<"a">>, <<"F">>, <<"g">>, <<"5">>, <<"6">>, <<"1">>, <<"m">>,
      <<".">>, <<";">>, <<" ">>, <<"\n">> }

\* the context argument
Contexts == { <<>>, <<"I", "P", "s", ":">> }

InitNormalize ==
    /\ IdleExtractor
    /\ IdleRefang
    /\ IdleList
    /\ IdleTable
    /\ IdleRegex
    /\ nc_in \in { [pieces |-> 0, value |-> stem] : stem \in Stems }
    /\ nc_out = NoCall

\* the caller composes the value
ComposeValue(piece) ==
    /\ nc_out = NoCall
    /\ nc_in.pieces < MaxValuePieces
    /\ nc_in' = [pieces |-> nc_in.pieces + 1, value |-> nc_in.value \o piece]
    /\ UNCHANGED <<ruleVars, used, callVars, refangVars, nc_out, listVars, tableVars, regexVars>>

\* IoCNormalizer.classify(value) is called and returns
Classify ==
    /\ nc_out = NoCall
    /\ nc_out' = [fn |-> "classify", ioc_type |-> classify(nc_in.value)]
    /\ UNCHANGED <<ruleVars, used, callVars, refangVars, nc_in, listVars, tableVars, regexVars>>

\* IoCNormalizer.normalize_and_classify(value, context) is called and returns
NormalizeAndClassify(context) ==
    /\ nc_out = NoCall
    /\ nc_out' = [fn |-> "normalize_and_classify",
                  ioc |-> normalize_and_classify(nc_in.value, context)]
    /\ UNCHANGED <<ruleVars, used, callVars, refangVars, nc_in, listVars, tableVars, regexVars>>

NextNormalize ==
    \/ \E piece \in ValuePieces : ComposeValue(piece)
    \/ Classify
    \/ \E context \in Contexts : NormalizeAndClassify(context)

SpecNormalize == InitNormalize /\ [][NextNormalize]_vars

----------------------------------------------------------------------------
(* rules/list_after_colon.py: ListAfterColonRule.extract on its own *)

\* str.endswith(c) for one character
endswith(string, c) == string # <<>> /\ string[Len(string)] = c

\* \d{1,3}(?:\[?\.\]?\d{1,3}){3} from position k on, with `groups` groups
\* still to read; first tells the group has no separator before it
RECURSIVE ip_like_from(_, _, _, _)
ip_like_from(text, k, groups, first) ==
    IF groups = 0 THEN TRUE
    ELSE \E open \in {0, 1}, close \in {0, 1}, n \in 1..3 :
             LET sep == IF first THEN 0 ELSE open + 1 + close
                 dot == k + (IF first THEN 0 ELSE open)
             IN /\ k + sep + n - 1 <= Len(text)
                /\ first \/ text[dot] = "."
                /\ first \/ open = 0 \/ text[k] = "["
                /\ first \/ close = 0 \/ text[dot + 1] = "]"
                /\ first => (open = 0 /\ close = 0)
                /\ all_in(SubSeq(text, k + sep, k + sep + n - 1), Digits)
                /\ ip_like_from(text, k + sep + n, groups - 1, FALSE)

\* ListAfterColonRule._looks_like_ioc(text)
looks_like_ioc(text) ==
    \/ \E body \in before_dollar(text) :
           Len(body) \in 32..128 /\ all_in(body, HexDigits)
    \/ \E scheme \in Schemes : startswith(text, scheme, TRUE)
    \/ ip_like_from(text, 1, 4, TRUE)

\* The texts of the paragraphs a document is made of: two headers, an item
\* ending with `;` and one ending with `.`, an empty and a whitespace-only
\* paragraph, plain text, an address with no terminator, a terminator with
\* nothing before it, a URL ending with a colon
ListTexts ==
    { <<"A", ":">>,
      <<"B", ":">>,
      <<" ", "1", ".", "1", ".", "1", ".", "1", ";", " ">>,
      <<"e", "v", "i", "l", "[", ".", "]", "c", "o", "m", ".">>,
      <<>>,
      <<" ", " ">>,
      <<"n", "o", "t", "e">>,
      <<"1", ".", "1", ".", "1", ".", "2">>,
      <<";">>,
      <<"f", "t", "p", ":", "/", "/", "x", ":">> }

\* the paragraph extract is looking at: _get_paragraph_text(paragraphs[i]).strip()
lac_text == strip(lac_paragraphs[lac_i + 1])

\* item_text[:-1].strip()
item_value(item_text) == strip(SubSeq(item_text, 1, Len(item_text) - 1))

\* yield IoCNormalizer.normalize_and_classify(value, context): the record,
\* with the index of the paragraph it comes from
lac_yield(value) ==
    Append(lac_yielded, [paragraph |-> lac_i,
                         ioc |-> normalize_and_classify(value, lac_context)])

\* the same with the header of the list not handed on
lac_yield_optional_no_context(value) ==
    IF value # <<>>
    THEN Append(lac_yielded, [paragraph |-> lac_i,
                              ioc |-> normalize_and_classify(value, <<>>)])
    ELSE lac_yielded

\* lines 50-51 / 58-59: if value: yield ...
lac_yield_optional(value) ==
    IF value # <<>> THEN lac_yield(value) ELSE lac_yielded

ListUnchanged == UNCHANGED <<ruleVars, used, callVars, refangVars, normVars, tableVars, regexVars>>

\* extract(document) is called: paragraphs = list(document.paragraphs); i = 0
ListExtract ==
    /\ lac_pc = "idle"
    /\ lac_pc' = "outer"
    /\ lac_i' = 0
    /\ UNCHANGED <<lac_paragraphs, lac_context, lac_yielded>>
    /\ ListUnchanged

\* line 35-37: the paragraph ends with `:` and opens a list
ListHeader ==
    /\ lac_pc = "outer"
    /\ lac_i < Len(lac_paragraphs)
    /\ endswith(lac_text, ":")
    /\ lac_context' = lac_text
    /\ lac_i' = lac_i + 1
    /\ lac_pc' = "inner"
    /\ UNCHANGED <<lac_paragraphs, lac_yielded>>
    /\ ListUnchanged

\* line 73-74: any other paragraph outside a list
ListOutside ==
    /\ lac_pc = "outer"
    /\ lac_i < Len(lac_paragraphs)
    /\ ~endswith(lac_text, ":")
    /\ lac_i' = lac_i + 1
    /\ UNCHANGED <<lac_paragraphs, lac_context, lac_pc, lac_yielded>>
    /\ ListUnchanged

\* line 31: the outer loop ends, the generator is exhausted
ListReturn ==
    /\ lac_pc = "outer"
    /\ lac_i >= Len(lac_paragraphs)
    /\ lac_pc' = "returned"
    /\ UNCHANGED <<lac_paragraphs, lac_i, lac_context, lac_yielded>>
    /\ ListUnchanged

\* line 40: the inner loop ends with the document
ListInnerEnd ==
    /\ lac_pc = "inner"
    /\ lac_i >= Len(lac_paragraphs)
    /\ lac_pc' = "outer"
    /\ UNCHANGED <<lac_paragraphs, lac_i, lac_context, lac_yielded>>
    /\ ListUnchanged

\* lines 43-45 with the list closed by a blank paragraph
blank_closes(pc_now) == "outer"

\* lines 43-45: continue, inside the list
blank_continues(pc_now) == pc_now

\* lines 43-45: a blank paragraph inside the list
ListBlank ==
    /\ lac_pc = "inner"
    /\ lac_i < Len(lac_paragraphs)
    /\ lac_text = <<>>
    /\ lac_i' = lac_i + 1
    /\ lac_pc' = blank_continues(lac_pc)
    /\ UNCHANGED <<lac_paragraphs, lac_context, lac_yielded>>
    /\ ListUnchanged

\* lines 48-53: an item ending with `;`
ListItem ==
    /\ lac_pc = "inner"
    /\ lac_i < Len(lac_paragraphs)
    /\ lac_text # <<>>
    /\ endswith(lac_text, ";")
    /\ lac_yielded' = lac_yield_optional(item_value(lac_text))
    /\ lac_i' = lac_i + 1
    /\ UNCHANGED <<lac_paragraphs, lac_context, lac_pc>>
    /\ ListUnchanged

\* lines 56-61: the item ending with `.`, the last of the list
ListLastItem ==
    /\ lac_pc = "inner"
    /\ lac_i < Len(lac_paragraphs)
    /\ lac_text # <<>>
    /\ ~endswith(lac_text, ";")
    /\ endswith(lac_text, ".")
    /\ lac_yielded' = lac_yield_optional(item_value(lac_text))
    /\ lac_i' = lac_i + 1
    /\ lac_pc' = "outer"
    /\ UNCHANGED <<lac_paragraphs, lac_context>>
    /\ ListUnchanged

\* lines 66-69: an item with no terminator that looks like an indicator
ListBareItem ==
    /\ lac_pc = "inner"
    /\ lac_i < Len(lac_paragraphs)
    /\ lac_text # <<>>
    /\ ~endswith(lac_text, ";")
    /\ ~endswith(lac_text, ".")
    /\ looks_like_ioc(lac_text)
    /\ lac_yielded' = lac_yield(lac_text)
    /\ lac_i' = lac_i + 1
    /\ UNCHANGED <<lac_paragraphs, lac_context, lac_pc>>
    /\ ListUnchanged

\* where the scan stands after line 72
break_consuming(k) == k + 1

\* line 72 with the scan sent back to the paragraph before
break_rewinding(k) == k - 1

\* line 72: break leaves i where it is
break_at(k) == k

\* line 72: anything else ends the list
ListBreak ==
    /\ lac_pc = "inner"
    /\ lac_i < Len(lac_paragraphs)
    /\ lac_text # <<>>
    /\ ~endswith(lac_text, ";")
    /\ ~endswith(lac_text, ".")
    /\ ~looks_like_ioc(lac_text)
    /\ lac_i' = break_at(lac_i)
    /\ lac_pc' = "outer"
    /\ UNCHANGED <<lac_paragraphs, lac_context, lac_yielded>>
    /\ ListUnchanged

InitList ==
    /\ IdleExtractor
    /\ IdleRefang
    /\ IdleNormalizer
    /\ IdleTable
    /\ IdleRegex
    /\ lac_paragraphs \in SeqsUpTo(ListTexts, MaxParagraphs)
    /\ lac_i = 0
    /\ lac_context = <<>>
    /\ lac_pc = "idle"
    /\ lac_yielded = <<>>

NextList ==
    \/ ListExtract
    \/ ListHeader
    \/ ListOutside
    \/ ListReturn
    \/ ListInnerEnd
    \/ ListBlank
    \/ ListItem
    \/ ListLastItem
    \/ ListBareItem
    \/ ListBreak

SpecList == InitList /\ [][NextList]_vars

\* The generator is driven to its end: extract consumes it in a for loop
\* (ioc/extractor.py line 159), which resumes it as long as it is not
\* exhausted. A resumed generator runs on: its position or its index changes.
ListResumed ==
    /\ lac_pc # "returned"
    /\ lac_pc' \in {"outer", "inner", "returned"}
    /\ lac_i' \in {lac_i, lac_i + 1}

SpecListFair == SpecList /\ WF_<<lac_pc, lac_i>>(ListResumed)

----------------------------------------------------------------------------
(* rules/table_after_header.py: TableAfterHeaderRule.extract on its own.    *)
(* The texts in use are ASCII: the Cyrillic keywords and header words,      *)
(* which no such text contains or equals, are left out of the two lists.    *)

\* a body element: a paragraph (its runs, each a text and a bold flag that
\* is True, False or None) or a table (rows of cells, a cell being the texts
\* of its paragraphs)
Run(text, bold) == [text |-> text, bold |-> bold]
Paragraph(runs) == [type |-> "paragraph", runs |-> runs]
Table(rows) == [type |-> "table", rows |-> rows]

\* IoCExtractionRule._get_paragraph_text(paragraph)
RECURSIVE get_paragraph_text(_)
get_paragraph_text(paragraph) ==
    IF paragraph.runs = <<>> THEN <<>>
    ELSE Head(paragraph.runs).text \o
         get_paragraph_text(Paragraph(Tail(paragraph.runs)))

\* any(run.bold is True for run in paragraph.runs)
has_bold(paragraph) ==
    \E n \in 1..Len(paragraph.runs) : paragraph.runs[n].bold = "True"

HEADER_KEYWORDS ==
    << 
       <<"i", "n", "d", "i", "c", "a", "t", "o", "r", "s", " ", "o", "f", " ", "c", "o", "m", "p", "r", "o", "m", "i", "s", "e">>,
       <<"i", "o", "c">>, <<"i", "o", "c", "s">> >>

HEADER_WORDS ==
    { <<"t", "y", "p", "e">>, <<"v", "a", "l", "u", "e">>,
      <<"d", "e", "s", "c", "r", "i", "p", "t", "i", "o", "n">>,
      <<"i", "n", "d", "i", "c", "a", "t", "o", "r">>,
      <<"h", "a", "s", "h">>, <<"i", "p">>,
      <<"d", "o", "m", "a", "i", "n">>, <<"u", "r", "l">>,
      <<"e", "m", "a", "i", "l">>, <<"c", "o", "m", "m", "e", "n", "t">>,
      <<"n", "a", "m", "e">>, <<"s", "h", "a", "2", "5", "6">>,
      <<"s", "h", "a", "1">>, <<"m", "d", "5">>,
      <<"s", "h", "a", "5", "1", "2">> }

\* kw in text
contains(text, kw) == \E k \in 1..Len(text) : match_at(text, k, kw, FALSE)

\* line 52-55: the lowercased trimmed text contains a keyword
has_keyword(elem) ==
    LET text == str_lower(strip(get_paragraph_text(elem)))
    IN \E n \in 1..Len(HEADER_KEYWORDS) : contains(text, HEADER_KEYWORDS[n])

\* line 68 with every paragraph passed over
skippable_always(elem) == TRUE

\* line 68: a run of the paragraph is bold, or its text is blank
skippable(elem) == has_bold(elem) \/ strip(get_paragraph_text(elem)) = <<>>

\* "\n".join(texts)
RECURSIVE join_lines(_)
join_lines(texts) ==
    IF texts = <<>> THEN <<>>
    ELSE IF Len(texts) = 1 THEN texts[1]
         ELSE texts[1] \o <<"\n">> \o join_lines(Tail(texts))

\* IoCExtractionRule._get_cell_text(cell)
get_cell_text(cell) == strip(join_lines(cell))

\* lines 92 / 98 with a header word anywhere in the text
in_header_words_somewhere(text) == \E w \in HEADER_WORDS : contains(text, w)

\* lines 92 / 98: text in HEADER_WORDS
in_header_words(text) == text \in HEADER_WORDS

\* lines 96-99: the records of the lines of one cell, from line n on
RECURSIVE cell_lines(_, _, _)
cell_lines(lines, n, context) ==
    IF n > Len(lines) THEN <<>>
    ELSE LET line == strip(lines[n])
         IN IF line # <<>> /\ ~in_header_words(str_lower(line))
            THEN <<normalize_and_classify(line, context)>> \o
                 cell_lines(lines, n + 1, context)
            ELSE cell_lines(lines, n + 1, context)

\* lines 86-99: the records of one cell
cell_records(cell, context) ==
    LET cell_text == get_cell_text(cell)
    IN IF cell_text = <<>> THEN <<>>
       ELSE IF in_header_words(strip(str_lower(cell_text))) THEN <<>>
       ELSE cell_lines(split(cell_text, "\n"), 1, context)

\* lines 84-85: the cells of the table, row after row
RECURSIVE all_cells(_)
all_cells(rows) ==
    IF rows = <<>> THEN <<>> ELSE Head(rows) \o all_cells(Tail(rows))

\* TableAfterHeaderRule._extract_from_table(table, context): what it yields
RECURSIVE extract_from_cells(_, _)
extract_from_cells(cells, context) ==
    IF cells = <<>> THEN <<>>
    ELSE cell_records(Head(cells), context) \o
         extract_from_cells(Tail(cells), context)

extract_from_table(table, context) ==
    extract_from_cells(all_cells(table.rows), context)

\* The elements a document body is made of: a header with a keyword (plain,
\* and with a bold run), a paragraph without keyword (plain, and bold), a
\* blank paragraph, and two tables
IndicatorTable ==
    Table(<< << <<<<"T", "y", "p", "e">>>>, <<<<" ", "V", "A", "L", "U", "E", " ">>>> >>,
             << <<<<"M", "D", "5", " ", "h", "a", "s", "h">>>>, <<<<"e", "v", "i", "l", "[", ".", "]", "c", "o", "m">>, <<>>, <<" ", "u", "r", "l">>>> >>,
             << <<<<"1", ".", "1", ".", "1", ".", "1", ";", "\n", " ", "E", "m", "a", "i", "l", " ">>, <<"h", "a", "s", "h">>>>, <<<<" ", " ">>>> >> >>)

AddressTable ==
    Table(<< << <<<<"n", "a", "m", "e", "\n">>>>, <<<<"h", "x", "x", "p", ":", "/", "/", "x", ".", "i", "o", "/", "a">>>> >> >>)

BodyElements ==
    { Paragraph(<<Run(<<" ", "I", "o", "C", "s", ":", " ">>, "None")>>),
      Paragraph(<<Run(<<"I", "n", "d", "i", "c", "a", "t", "o", "r", "s", " ", "o", "f", " ">>, "None"),
                  Run(<<"C", "o", "m", "p", "r", "o", "m", "i", "s", "e">>, "True")>>),
      Paragraph(<<Run(<<"s", "e", "e", " ">>, "False"), Run(<<"b", "e", "l", "o", "w">>, "None")>>),
      Paragraph(<<Run(<<"S", "u", "m", "m", "a", "r", "y">>, "True")>>),
      Paragraph(<<Run(<<" ", " ">>, "None")>>),
      IndicatorTable, AddressTable }

tah_element(k) == tah_elements[k + 1]

TableUnchanged ==
    UNCHANGED <<ruleVars, used, callVars, refangVars, normVars, listVars, regexVars>>

\* extract(document) is called: the elements are collected, the loop starts
TableExtract ==
    /\ tah_pc = "idle"
    /\ tah_pc' = "outer"
    /\ tah_i' = 0
    /\ UNCHANGED <<tah_elements, tah_j, tah_context, tah_yielded>>
    /\ TableUnchanged

\* lines 50-55: a table, or a paragraph without keyword
TableOutside ==
    /\ tah_pc = "outer"
    /\ tah_i < Len(tah_elements)
    /\ ~(tah_element(tah_i).type = "paragraph" /\ has_keyword(tah_element(tah_i)))
    /\ tah_i' = tah_i + 1
    /\ UNCHANGED <<tah_elements, tah_j, tah_context, tah_pc, tah_yielded>>
    /\ TableUnchanged

\* lines 55-60: a header: the search for the next table starts
TableHeader ==
    /\ tah_pc = "outer"
    /\ tah_i < Len(tah_elements)
    /\ tah_element(tah_i).type = "paragraph"
    /\ has_keyword(tah_element(tah_i))
    /\ tah_context' = strip(get_paragraph_text(tah_element(tah_i)))
    /\ tah_j' = tah_i + 1
    /\ tah_pc' = "search"
    /\ UNCHANGED <<tah_elements, tah_i, tah_yielded>>
    /\ TableUnchanged

\* lines 63-65: the next element is a table: its records are yielded
TableFound ==
    /\ tah_pc = "search"
    /\ tah_j < Len(tah_elements)
    /\ tah_element(tah_j).type = "table"
    /\ tah_yielded' = Append(tah_yielded,
           [header |-> tah_i, table |-> tah_j,
            iocs |-> extract_from_table(tah_element(tah_j), tah_context)])
    /\ tah_pc' = "outer"
    /\ tah_i' = tah_i + 1
    /\ UNCHANGED <<tah_elements, tah_j, tah_context>>
    /\ TableUnchanged

\* lines 66-69: a bold or blank paragraph: the search goes on
TablePassOver ==
    /\ tah_pc = "search"
    /\ tah_j < Len(tah_elements)
    /\ tah_element(tah_j).type = "paragraph"
    /\ skippable(tah_element(tah_j))
    /\ tah_j' = tah_j + 1
    /\ UNCHANGED <<tah_elements, tah_i, tah_context, tah_pc, tah_yielded>>
    /\ TableUnchanged

\* lines 71-72: any other paragraph ends the search
TableAbort ==
    /\ tah_pc = "search"
    /\ tah_j < Len(tah_elements)
    /\ tah_element(tah_j).type = "paragraph"
    /\ ~skippable(tah_element(tah_j))
    /\ tah_pc' = "outer"
    /\ tah_i' = tah_i + 1
    /\ UNCHANGED <<tah_elements, tah_j, tah_context, tah_yielded>>
    /\ TableUnchanged

\* line 60: the search reaches the end of the document
TableSearchEnd ==
    /\ tah_pc = "search"
    /\ tah_j >= Len(tah_elements)
    /\ tah_pc' = "outer"
    /\ tah_i' = tah_i + 1
    /\ UNCHANGED <<tah_elements, tah_j, tah_context, tah_yielded>>
    /\ TableUnchanged

\* line 50: the loop over the elements ends, the generator is exhausted
TableReturn ==
    /\ tah_pc = "outer"
    /\ tah_i >= Len(tah_elements)
    /\ tah_pc' = "returned"
    /\ UNCHANGED <<tah_elements, tah_i, tah_j, tah_context, tah_yielded>>
    /\ TableUnchanged

InitTable ==
    /\ IdleExtractor
    /\ IdleRefang
    /\ IdleNormalizer
    /\ IdleList
    /\ IdleRegex
    /\ tah_elements \in SeqsUpTo(BodyElements, MaxElements)
    /\ tah_i = 0
    /\ tah_j = 0
    /\ tah_context = <<>>
    /\ tah_pc = "idle"
    /\ tah_yielded = <<>>

NextTable ==
    \/ TableExtract
    \/ TableOutside
    \/ TableHeader
    \/ TableFound
    \/ TablePassOver
    \/ TableAbort
    \/ TableSearchEnd
    \/ TableReturn

SpecTable == InitTable /\ [][NextTable]_vars

----------------------------------------------------------------------------
(* rules/regex_pattern.py: the regular expressions of SEARCH_PATTERNS.       *)
(* A pattern is a sequence of items, matched as re matches them: greedily,   *)
(* backtracking to the first way, in the order of preference, in which the   *)
(* whole pattern matches.                                                    *)

\* [chars]{min,max}; max = -1 stands for no upper limit
Cls(chars, min, max) ==
    [t |-> "set", chars |-> chars, neg |-> FALSE, min |-> min, max |-> max]
\* [^chars]{min,max}
NotCls(chars, min, max) ==
    [t |-> "set", chars |-> chars, neg |-> TRUE, min |-> min, max |-> max]
\* the characters of a literal text, one after the other
Lit(string) == [k \in 1..Len(string) |-> Cls({string[k]}, 1, 1)]
\* \b
WordBoundary == [t |-> "b"]
\* (?<![chars])
NotBehind(chars) == [t |-> "nb", chars |-> chars]
\* (?:alts[1]|alts[2]|...)
Alt(alts) == [t |-> "alt", alts |-> alts]
\* (?:body){min,max}
Group(body, min, max) == [t |-> "rep", body |-> body, min |-> min, max |-> max]

\* \w, for \b
is_word(string, k) == k >= 1 /\ k <= Len(string) /\ string[k] \in Alnum \cup {"_"}

\* one character against a class, with re.IGNORECASE when asked
in_class(c, item, ignorecase) ==
    LET hit == IF ignorecase
               THEN \E d \in item.chars : ascii_lower(d) = ascii_lower(c)
               ELSE c \in item.chars
    IN hit # item.neg

\* one less of a quantifier's limits
fewer(n) == IF n > 0 THEN n - 1 ELSE n

\* The match of the items at position pos: the position after its last
\* character, or 0 when the items do not match there
RECURSIVE re_match(_, _, _, _)
re_match(items, string, pos, ignorecase) ==
    IF items = <<>> THEN pos
    ELSE
    LET item == Head(items)
        rest == Tail(items)
    IN CASE item.t = "b" ->
              IF is_word(string, pos - 1) # is_word(string, pos)
              THEN re_match(rest, string, pos, ignorecase) ELSE 0
         [] item.t = "nb" ->
              IF pos > 1 /\ string[pos - 1] \in item.chars THEN 0
              ELSE re_match(rest, string, pos, ignorecase)
         [] item.t = "alt" ->
              LET ends == { <<n, re_match(item.alts[n] \o rest, string, pos, ignorecase)>> :
                              n \in 1..Len(item.alts) }
                  ok == { x \in ends : x[2] # 0 }
              IN IF ok = {} THEN 0
                 ELSE (CHOOSE x \in ok : \A y \in ok : x[1] <= y[1])[2]
         [] item.t = "rep" ->
              LET again == IF item.max = 0 THEN 0
                           ELSE re_match(item.body
                                           \o <<Group(item.body, fewer(item.min), fewer(item.max))>>
                                           \o rest, string, pos, ignorecase)
              IN IF again # 0 THEN again
                 ELSE IF item.min <= 0 THEN re_match(rest, string, pos, ignorecase)
                 ELSE 0
         [] item.t = "set" ->
              LET last == IF item.max < 0 \/ pos + item.max - 1 > Len(string)
                          THEN Len(string) ELSE pos + item.max - 1
                  bad == { j \in pos..last : ~in_class(string[j], item, ignorecase) }
                  run == IF bad = {} THEN last - pos + 1
                         ELSE (CHOOSE j \in bad : \A i \in bad : j <= i) - pos
                  ends == { <<c, re_match(rest, string, pos + c, ignorecase)>> :
                              c \in item.min..run }
                  ok == { x \in ends : x[2] # 0 }
              IN IF ok = {} THEN 0
                 ELSE (CHOOSE x \in ok : \A y \in ok : x[1] >= y[1])[2]

\* pattern.finditer(string) from position pos on: the matches from left to
\* right, without overlap, each [start, end) with 1-based start
RECURSIVE finditer_from(_, _, _)
finditer_from(pattern, string, pos) ==
    LET starts == { k \in pos..Len(string) :
                      re_match(pattern.items, string, k, pattern.ignorecase) # 0 }
    IN IF starts = {} THEN <<>>
       ELSE LET k == CHOOSE k \in starts : \A j \in starts : k <= j
                e == re_match(pattern.items, string, k, pattern.ignorecase)
            IN <<[name |-> pattern.name, start |-> k, end |-> e]>> \o
               finditer_from(pattern, string, e)

finditer(pattern, string) == finditer_from(pattern, string, 1)

SearchPattern(name, items, ignorecase) ==
    [name |-> name, items |-> items, ignorecase |-> ignorecase]

\* \b[a-fA-F0-9]{n}\b
hash_pattern(n) == <<WordBoundary, Cls(HexDigits, n, n), WordBoundary>>

\* hxxps?\[:\]// or https?:// and [^\s<>"';,\n]+(?<![.,!?;:])
url_pattern(scheme, colon) ==
    Lit(scheme) \o <<Cls({"s"}, 0, 1)>> \o Lit(colon) \o Lit(<<"/", "/">>) \o
    << NotCls(Whitespace \cup {"<", ">", "\"", "'", ";", ","}, 1, -1),
       NotBehind({".", ",", "!", "?", ";", ":"}) >>

\* 25[0-5]|2[0-4][0-9]|[01]?[0-9][0-9]?
octet_pattern ==
    Alt(<< Lit(<<"2", "5">>) \o <<Cls({"0", "1", "2", "3", "4", "5"}, 1, 1)>>,
           << Cls({"2"}, 1, 1), Cls({"0", "1", "2", "3", "4"}, 1, 1),
              Cls(Digits, 1, 1) >>,
           << Cls({"0", "1"}, 0, 1), Cls(Digits, 1, 1), Cls(Digits, 0, 1) >> >>)

\* [a-zA-Z0-9][a-zA-Z0-9-]*
label_pattern == << Cls(Alnum, 1, 1), Cls(Alnum \cup {"-"}, 0, -1) >>

\* SEARCH_PATTERNS, in the order of the dict
SEARCH_PATTERNS ==
    << SearchPattern(<<"h", "a", "s", "h", "_", "s", "h", "a", "2", "5", "6">>,
                     hash_pattern(64), FALSE),
       SearchPattern(<<"h", "a", "s", "h", "_", "s", "h", "a", "1">>,
                     hash_pattern(40), FALSE),
       SearchPattern(<<"h", "a", "s", "h", "_", "m", "d", "5">>,
                     hash_pattern(32), FALSE),
       SearchPattern(<<"h", "a", "s", "h", "_", "s", "h", "a", "5", "1", "2">>,
                     hash_pattern(128), FALSE),
       SearchPattern(<<"u", "r", "l", "_", "d", "e", "f", "a", "n", "g", "e", "d">>,
                    
                     url_pattern(<<"h", "x", "x", "p">>, <<"[", ":", "]">>), TRUE),
       SearchPattern(<<"u", "r", "l", "_", "n", "o", "r", "m", "a", "l">>,
                    
                     url_pattern(<<"h", "t", "t", "p">>, <<":">>), TRUE),
       SearchPattern(<<"i", "p", "_", "d", "e", "f", "a", "n", "g", "e", "d">>,
                    
                     <<WordBoundary, Cls(Digits, 1, 3)>> \o
                     <<Group(Lit(<<"[", ".", "]">>) \o <<Cls(Digits, 1, 3)>>, 3, 3),
                       WordBoundary>>, FALSE),
       SearchPattern(<<"i", "p", "_", "n", "o", "r", "m", "a", "l">>,
                    
                     <<WordBoundary,
                       Group(<<octet_pattern>> \o Lit(<<".">>), 3, 3),
                       octet_pattern, WordBoundary>>, FALSE),
       SearchPattern(<<"d", "o", "m", "a", "i", "n", "_", "d", "e", "f", "a", "n", "g", "e", "d">>,
                    
                     <<WordBoundary>> \o label_pattern \o
                     <<Group(Lit(<<"[", ".", "]">>) \o label_pattern, 1, -1)>> \o
                     Lit(<<"[", ".", "]">>) \o
                     <<Cls(Letters, 2, -1), WordBoundary>>, FALSE),
       SearchPattern(<<"c", "v", "e">>,
                     <<WordBoundary>> \o Lit(<<"C", "V", "E", "-">>) \o
                     <<Cls(Digits, 4, 4)>> \o Lit(<<"-">>) \o
                     <<Cls(Digits, 4, -1), WordBoundary>>, TRUE),
       SearchPattern(<<"e", "m", "a", "i", "l">>,
                     <<WordBoundary,
                       Cls(Alnum \cup {".", "_", "%", "+", "-"}, 1, -1)>> \o
                     Lit(<<"@">>) \o <<Cls(Alnum \cup {".", "-"}, 1, -1)>> \o
                     Lit(<<".">>) \o <<Cls(Letters, 2, -1), WordBoundary>>, FALSE) >>

----------------------------------------------------------------------------
(* rules/regex_pattern.py: RegexPatternRule.extract, run by extract as the   *)
(* third of the default rules on a document in which the two rules before    *)
(* it find nothing.                                                          *)

\* [a-zA-Z0-9/\-_.\[\]]
UrlLike == Alnum \cup {"/", "-", "_", ".", "[", "]"}

\* (?<=[...])\n(?=[...]) matches at position k
garbage_break(text, k) ==
    /\ text[k] = "\n"
    /\ k > 1 /\ text[k - 1] \in UrlLike
    /\ k < Len(text) /\ text[k + 1] \in UrlLike

\* normalize_text_for_url_extraction(text), from position k on
RECURSIVE heal_from(_, _)
heal_from(text, k) ==
    LET hits == { j \in k..Len(text) : garbage_break(text, j) }
    IN IF hits = {} THEN from(text, k)
       ELSE LET m == CHOOSE j \in hits : \A i \in hits : j <= i
            IN SubSeq(text, k, m - 1) \o heal_from(text, m + 1)

normalize_text_for_url_extraction(text) == heal_from(text, 1)

\* lines 60-67: the non-empty paragraph texts joined and healed
full_text_of(paragraphs) ==
    LET nonempty(text) == text # <<>>
    IN normalize_text_for_url_extraction(join_lines(SelectSeq(paragraphs, nonempty)))

\* lines 74-75: the matches of all the patterns, pattern after pattern
RECURSIVE sweep(_, _)
sweep(n, full_text) ==
    IF n > Len(SEARCH_PATTERNS) THEN <<>>
    ELSE finditer(SEARCH_PATTERNS[n], full_text) \o sweep(n + 1, full_text)

\* line 84-85: the characters of context on each side of a match
ContextWindow == 50

\* match.group()
group(full_text, match) == SubSeq(full_text, match.start, match.end - 1)

\* lines 84-88: f"[{pattern_name}] ...{context}..."
context_of(full_text, match) ==
    LET start == IF match.start - ContextWindow < 1 THEN 1
                 ELSE match.start - ContextWindow
        end == IF match.end - 1 + ContextWindow > Len(full_text) THEN Len(full_text)
               ELSE match.end - 1 + ContextWindow
        window == SubSeq(full_text, start, end)
        context == strip([k \in 1..Len(window) |->
                             IF window[k] = "\n" THEN " " ELSE window[k]])
    IN <<"[">> \o match.name \o <<"]", " ", ".", ".", ".">> \o context \o <<".", ".", ".">>

\* The texts of the paragraphs: bare hashes of the shortest and the longest
\* kind, a URL in its defanged and in its plain spelling, an address in both
\* spellings and repeated, a blank and an empty paragraph
SweepTexts ==
    { Hex(32), Hex(128),
      <<"h", "x", "x", "p", "s", "[", ":", "]", "/", "/", "e", "v", "i", "l", "[", ".", "]", "c", "o", "m", "/", "a">>,
      <<"h", "t", "t", "p", "s", ":", "/", "/", "e", "v", "i", "l", ".", "c", "o", "m", "/", "a">>,
      <<"1", ".", "1", ".", "1", ".", "1", " ", "1", "[", ".", "]", "1", "[", ".", "]", "1", "[", ".", "]", "1", " ", "1", ".", "1", ".", "1", ".", "1">>,
      <<" ">>, <<>> }

\* (mutant) line 79 with the record's value looked up instead of the match
seen_key_normalized(value) == normalize_and_classify(value, <<>>).value

\* line 79, 81: what is looked up in, and added to, seen
seen_key(value) == value

rx_match == rx_matches[rx_k + 1]

RegexUnchanged ==
    UNCHANGED <<ruleVars, used, mode, filepath, pass_unknown, filepaths, results, docs,
                refangVars, normVars, listVars, tableVars>>

\* lines 58-72: rule.extract(document) starts: the text is collected, seen is
\* empty, the patterns are about to be applied
RegexExtract ==
    /\ rx_pc = "idle"
    /\ pc = "in_rule"
    /\ rules[ri].name = "regex_pattern"
    /\ rx_full_text' = full_text_of(rx_paragraphs)
    /\ rx_matches' = sweep(1, rx_full_text')
    /\ rx_k' = 0
    /\ rx_seen' = {}
    /\ rx_pc' = "sweep"
    /\ UNCHANGED <<rx_paragraphs, rx_yielded, pc, ri, result, seen_iocs, log>>
    /\ RegexUnchanged

\* lines 76-80: the text of the next match is in seen: continue
RegexSeen ==
    /\ rx_pc = "sweep"
    /\ rx_k < Len(rx_matches)
    /\ seen_key(group(rx_full_text, rx_match)) \in rx_seen
    /\ rx_k' = rx_k + 1
    /\ UNCHANGED <<rx_paragraphs, rx_full_text, rx_matches, rx_seen, rx_pc, rx_yielded,
                   pc, ri, result, seen_iocs, log>>
    /\ RegexUnchanged

\* lines 76-88: the text of the next match is new: it is added to seen and
\* its record is yielded; ioc/extractor.py lines 159-168: extract filters the
\* record or registers it
RegexYield ==
    /\ rx_pc = "sweep"
    /\ rx_k < Len(rx_matches)
    /\ seen_key(group(rx_full_text, rx_match)) \notin rx_seen
    /\ LET value == group(rx_full_text, rx_match)
           ioc == normalize_and_classify(value, context_of(rx_full_text, rx_match))
       IN /\ rx_seen' = rx_seen \cup {seen_key(value)}
          /\ rx_yielded' = Append(rx_yielded, [match |-> rx_match, ioc |-> ioc])
          /\ log' = Append(log, [ev |-> "yield", ri |-> ri, rule |-> rules[ri].name,
                                 ioc |-> ioc])
          /\ IF filtered(ioc, pass_unknown) THEN
                 UNCHANGED <<seen_iocs, result>>
             ELSE
                 /\ seen_iocs' = dedup_seen(seen_iocs, ioc)
                 /\ result' = [result EXCEPT
                        !.iocs = dedup_iocs(@, seen_iocs, ioc, rules[ri])]
    /\ rx_k' = rx_k + 1
    /\ UNCHANGED <<rx_paragraphs, rx_full_text, rx_matches, rx_pc, pc, ri>>
    /\ RegexUnchanged

\* line 74: the patterns are exhausted, and so is the generator;
\* ioc/extractor.py line 158: extract goes on to the next rule
RegexReturn ==
    /\ rx_pc = "sweep"
    /\ rx_k >= Len(rx_matches)
    /\ rx_pc' = "returned"
    /\ pc' = after_rule(ri)
    /\ ri' = ri + 1
    /\ UNCHANGED <<rx_paragraphs, rx_full_text, rx_matches, rx_k, rx_seen, rx_yielded,
                   result, seen_iocs, log>>
    /\ RegexUnchanged

\* extract has opened the document and run the list rule and the table rule,
\* which yielded nothing: no paragraph is a header, there is no table
InitRegex ==
    /\ use_default_rules = TRUE
    /\ rules = init_rules(use_default_rules)
    /\ history = <<>>
    /\ used = NothingUsed
    /\ mode = "extract"
    /\ pc = "in_rule"
    /\ filepath = [stem |-> "a", suffix |-> ".docx"]
    /\ pass_unknown = FALSE
    /\ result = ExtractionResult(filepath)
    /\ seen_iocs = {}
    /\ ri = 3
    /\ log = <<>>
    /\ filepaths = <<>>
    /\ results = EmptyDict
    /\ docs = [p \in ReadablePaths |-> FreeDocument]
    /\ IdleRefang
    /\ IdleNormalizer
    /\ IdleList
    /\ IdleTable
    /\ rx_paragraphs \in SeqsUpTo(SweepTexts, MaxSweepParagraphs)
    /\ rx_full_text = <<>>
    /\ rx_matches = <<>>
    /\ rx_k = 0
    /\ rx_seen = {}
    /\ rx_pc = "idle"
    /\ rx_yielded = <<>>

NextRegex ==
    \/ RegexExtract
    \/ RegexSeen
    \/ RegexYield
    \/ RegexReturn

SpecRegex == InitRegex /\ [][NextRegex]_vars

----------------------------------------------------------------------------
(* Properties of IoCExtractor.extract.  The log holds, in order, every      *)
(* record a rule's generator handed to extract during the running call and *)
(* every raise, each with the index and the name of the rule.              *)

Yielded == { k \in 1..Len(log) : log[k].ev = "yield" }
Raised == { k \in 1..Len(log) : log[k].ev = "raise" }

\* the yields extract does not drop for their type
Kept == { k \in Yielded : pass_unknown \/ log[k].ioc.ioc_type # "UNKNOWN" }

\* the positions of result.iocs holding a record with this key
Holding(kv) == { n \in 1..Len(result.iocs) : key(result.iocs[n]) = kv }

\* C1: the iocs list of the result extract builds and returns holds no two
\* records with the same (value, ioc_type), whatever the rules yield.
C1_NoDuplicateKey ==
    \A m, n \in 1..Len(result.iocs) :
        m # n => key(result.iocs[m]) # key(result.iocs[n])

\* C1's case: extract is about to return after two different rules yielded
\* the same (value, type), and the result holds it
C1_Witness ==
    /\ pc = "return"
    /\ \E a, b \in Kept :
          /\ log[a].ri < log[b].ri
          /\ key(log[a].ioc) = key(log[b].ioc)
          /\ Holding(key(log[a].ioc)) # {}

\* C2: when two rules yield the identical (value, ioc_type), the first of
\* them in the rule list being the first rule to find it, the result holds
\* exactly one record with that key and its rule_extracted is the first
\* rule's name, also after the later rule has yielded it.
C2_FirstRuleAttributed ==
    \A a, b \in Kept :
        ( /\ log[a].ri < log[b].ri
          /\ key(log[a].ioc) = key(log[b].ioc)
          /\ \A c \in Kept : key(log[c].ioc) = key(log[a].ioc)
                                => log[c].ri >= log[a].ri )
        => /\ Cardinality(Holding(key(log[a].ioc))) = 1
           /\ \A n \in Holding(key(log[a].ioc)) :
                  result.iocs[n].rule_extracted = rules[log[a].ri].name

\* C2's case: a later rule with another name has yielded a key an earlier
\* rule had registered, and extract is about to return
C2_Witness ==
    /\ pc = "return"
    /\ \E a, b \in Kept :
          /\ log[a].ri < log[b].ri
          /\ key(log[a].ioc) = key(log[b].ioc)
          /\ rules[log[a].ri].name # rules[log[b].ri].name

\* the error strings of the result that name a rule, in order
RuleErrors ==
    LET named(e) == e.kind = "rule" IN SelectSeq(result.errors, named)

\* the raises of the log, in order, as the names of the rules that raised
RECURSIVE RaisedNames(_)
RaisedNames(k) ==
    IF k = 0 THEN <<>>
    ELSE IF log[k].ev = "raise" THEN Append(RaisedNames(k - 1), log[k].rule)
         ELSE RaisedNames(k - 1)

\* C3: a rule that raises adds exactly one error naming it, extract goes on
\* to its return statement having gone through the whole rule list, and what
\* the rules after it yield is in the result.
C3_RaiseIsolated ==
    (mode = "extract" /\ Raised # {}) =>
        /\ Len(result.errors) = Cardinality(Raised)
        /\ [n \in 1..Len(RuleErrors) |-> RuleErrors[n].rule] = RaisedNames(Len(log))
        /\ pc \in {"in_rule", "return"}
        /\ \A f \in Raised : ri > log[f].ri
        /\ pc = "return" => ri = Len(rules) + 1
        /\ \A f \in Raised, k \in Kept :
               (k > f /\ log[k].ri > log[f].ri) => Holding(key(log[k].ioc)) # {}

\* C3's case: a rule raised, a later rule then yielded a record nobody had
\* yielded before, and extract is about to return
C3_Witness ==
    /\ pc = "return"
    /\ \E f \in Raised, k \in Kept :
          /\ k > f
          /\ \A j \in Kept : j < k => key(log[j].ioc) # key(log[k].ioc)
          /\ Holding(key(log[k].ioc)) # {}

\* C4 as claimed: what a rule yielded before it raised is discarded. For a
\* key only the raising rule yielded: no record of the result holds it and
\* it is not in the dedup set.
C4_PartialOutputDiscarded ==
    \A f \in Raised, k \in Kept :
        ( /\ pc = "return"
          /\ log[k].ri = log[f].ri
          /\ \A j \in Kept : key(log[j].ioc) = key(log[k].ioc)
                                => log[j].ri = log[f].ri )
        => /\ Holding(key(log[k].ioc)) = {}
           /\ key(log[k].ioc) \notin seen_iocs

\* the file-level failures, as the file system has them
FileFails(p) ==
    \/ ~exists(p)
    \/ lower(p.suffix) # ".docx"
    \/ ~DocxDocumentOpens(p)

\* C5: on a path that does not exist, is not .docx or does not open, extract
\* goes straight to its return statement with exactly one error, no record,
\* and no rule run.
C5_FileFailure ==
    (mode = "extract" /\ FileFails(filepath)) =>
        /\ pc = "return"
        /\ Len(result.errors) = 1
        /\ result.errors[1].kind # "rule"
        /\ result.iocs = <<>>
        /\ log = <<>>
        /\ ri = 0

\* C5's case: extract returns for a file that exists, is .docx and does not open
C5_Witness ==
    /\ mode = "extract"
    /\ pc = "return"
    /\ exists(filepath)
    /\ lower(filepath.suffix) = ".docx"
    /\ ~DocxDocumentOpens(filepath)

\* C6: with pass_unknown false no record of the result has type UNKNOWN;
\* with pass_unknown true every UNKNOWN record a rule yielded is in the
\* result (once per key).
C6_UnknownFilter ==
    mode = "extract" =>
        /\ ~pass_unknown =>
               \A n \in 1..Len(result.iocs) : result.iocs[n].ioc_type # "UNKNOWN"
        /\ pass_unknown =>
               \A k \in Yielded :
                   log[k].ioc.ioc_type = "UNKNOWN"
                       => Cardinality(Holding(key(log[k].ioc))) = 1

\* C6's case: by default, rules yielded an UNKNOWN record and a typed one,
\* and extract is about to return
C6_Witness ==
    /\ pc = "return"
    /\ ~pass_unknown
    /\ \E k \in Yielded : log[k].ioc.ioc_type = "UNKNOWN"
    /\ result.iocs # <<>>

\* C6's other case: pass_unknown is set and the result holds an UNKNOWN record
C6_WitnessKept ==
    /\ pc = "return"
    /\ pass_unknown
    /\ \E n \in 1..Len(result.iocs) : result.iocs[n].ioc_type = "UNKNOWN"

\* the host of the URLs in use: scheme, port, path and query removed
C7_Host(url) ==
    IF url = "https://sub.example.com:8443/a/b?x=1" THEN "sub.example.com" ELSE url

\* C7 as claimed: by default (extract has no url_original option to set),
\* every URL record a rule yields is in the result as DOMAIN with the host as
\* value, and the result holds no record of type URL.
C7_UrlCollapsedToDomain ==
    (mode = "extract" /\ pc = "return") =>
        /\ \A n \in 1..Len(result.iocs) : result.iocs[n].ioc_type # "URL"
        /\ \A k \in Yielded :
               log[k].ioc.ioc_type = "URL"
                   => Holding(<<C7_Host(log[k].ioc.value), "DOMAIN">>) # {}

\* C8 as claimed: refang applied to the string refang returned gives that
\* string back with no substitution firing.
C8_RefangIdempotent ==
    refang_out[3] => refang(refang_out[1]) = <<refang_out[1], FALSE>>

----------------------------------------------------------------------------
(* Properties of extract_from_files, on files whose content fixes what each *)
(* rule yields and whether it raises.                                      *)

\* what the rules yield on document d, rule after rule, up to rule k: the
\* records with the index of their rule
RECURSIVE AllYields(_, _)
AllYields(d, k) ==
    IF k = 0 THEN <<>>
    ELSE LET ys == d.script[rules[k].name].yields
         IN AllYields(d, k - 1) \o [n \in 1..Len(ys) |-> [ri |-> k, ioc |-> ys[n]]]

\* extract on that document alone: the first occurrence of every key among
\* the yields not dropped for their type, with the name of its rule
RECURSIVE AloneIocs(_, _, _)
AloneIocs(ys, n, pu) ==
    IF n = 0 THEN <<>>
    ELSE LET y == ys[n]
             dropped(m) == ~pu /\ ys[m].ioc.ioc_type = "UNKNOWN"
             first == \A m \in 1..(n - 1) :
                          dropped(m) \/ key(ys[m].ioc) # key(y.ioc)
         IN IF ~dropped(n) /\ first
            THEN Append(AloneIocs(ys, n - 1, pu),
                        [value |-> y.ioc.value, ioc_type |-> y.ioc.ioc_type,
                         rule_extracted |-> rules[y.ri].name])
            ELSE AloneIocs(ys, n - 1, pu)

\* ... and one error for every rule that raises, in rule order
RECURSIVE AloneErrors(_, _)
AloneErrors(d, k) ==
    IF k = 0 THEN <<>>
    ELSE IF d.script[rules[k].name].raises
         THEN Append(AloneErrors(d, k - 1), [kind |-> "rule", rule |-> rules[k].name])
         ELSE AloneErrors(d, k - 1)

ExtractAlone(p, pu) ==
    IF FileFails(p) THEN
        [filepath |-> p, iocs |-> <<>>,
         errors |-> << [kind |-> IF ~exists(p) THEN "not_found"
                                 ELSE IF lower(p.suffix) # ".docx" THEN "bad_format"
                                 ELSE "open_failed",
                        rule |-> ""] >>]
    ELSE
        [filepath |-> p,
         iocs |-> LET ys == AllYields(docs[p], Len(rules))
                  IN AloneIocs(ys, Len(ys), pu),
         errors |-> AloneErrors(docs[p], Len(rules))]

\* C9: the result extract_from_files holds for a path is what extract gives
\* for that file alone under the same rule list and options, whatever else
\* is, was or failed in the batch and whatever was extracted before.
C9_PerFileIndependent ==
    \A p \in DOMAIN results : results[p] = ExtractAlone(p, pass_unknown)

\* C9's case: the batch is through two readable files in which rules find the
\* same record, and one rule raised on the second but not on the first
C9_Witness ==
    /\ mode = "extract_from_files"
    /\ pc = "for_filepath"
    /\ filepaths = <<>>
    /\ \E p, q \in DOMAIN results :
          /\ p # q
          /\ \E m \in 1..Len(results[p].iocs), n \in 1..Len(results[q].iocs) :
                 key(results[p].iocs[m]) = key(results[q].iocs[n])
          /\ results[p].errors = <<>>
          /\ results[q].errors # <<>>

----------------------------------------------------------------------------
(* Properties of the rule list *)

\* the calls that put rules in the list or take them out, from construction
\* on: the constructor's three built-in rules count as three add_rule calls
C10_Timeline ==
    (IF use_default_rules
     THEN << [op |-> "add_rule", name |-> "list_after_colon"],
             [op |-> "add_rule", name |-> "table_after_header"],
             [op |-> "add_rule", name |-> "regex_pattern"] >>
     ELSE <<>>) \o history

\* the rule registered at position k of the timeline was not removed since
C10_Survives(k) ==
    /\ C10_Timeline[k].op = "add_rule"
    /\ \A j \in (k + 1)..Len(C10_Timeline) :
           ~(C10_Timeline[j].op = "remove_rule"
             /\ C10_Timeline[j].name = C10_Timeline[k].name)

\* the names of the surviving rules among the first k entries, in the order
\* they were registered
RECURSIVE C10_Survivors(_)
C10_Survivors(k) ==
    IF k = 0 THEN <<>>
    ELSE IF C10_Survives(k)
         THEN Append(C10_Survivors(k - 1), C10_Timeline[k].name)
         ELSE C10_Survivors(k - 1)

\* C10: a new extractor (built with the default use_default_rules) lists
\* list_after_colon, table_after_header, regex_pattern in that order; after
\* any add_rule and remove_rule calls get_rules is the names of the rules
\* registered and not removed since, in registration order.
C10_RuleListOrder ==
    /\ (use_default_rules /\ history = <<>>) =>
           get_rules = <<"list_after_colon", "table_after_header", "regex_pattern">>
    /\ get_rules = C10_Survivors(Len(C10_Timeline))

\* C10's case: a second rule with a built-in rule's name was added, both were
\* removed by name, and rules registered before and after them are listed
C10_Witness ==
    /\ Len(history) = 3
    /\ history[1] = [op |-> "add_rule", name |-> "table_after_header"]
    /\ history[2] = [op |-> "add_rule", name |-> "mitre_attck"]
    /\ history[3] = [op |-> "remove_rule", name |-> "table_after_header"]
    /\ get_rules = <<"list_after_colon", "regex_pattern", "mitre_attck">>

----------------------------------------------------------------------------
(* Properties of classify and normalize_and_classify *)

\* the value classify was called on, and the record normalize_and_classify
\* returned
Classified == nc_out.fn = "classify"
Normalized == nc_out.fn = "normalize_and_classify"

\* the hash types with the number of hexadecimal digits of each
HashLengths ==
    { <<"HASH_MD5", 32>>, <<"HASH_SHA1", 40>>, <<"HASH_SHA256", 64>>,
      <<"HASH_SHA512", 128>> }

\* C11 as claimed: classify returns a hash type exactly when the whole value
\* is 32, 40, 64 or 128 hexadecimal digits, and that type is the one of the
\* length; hexadecimal digits in any other number are never typed as a hash.
C11_HashExactlyByLength ==
    Classified =>
        \A h \in HashLengths :
            nc_out.ioc_type = h[1]
                <=> (Len(nc_in.value) = h[2] /\ all_in(nc_in.value, HexDigits))

\* C12: classify returns one of the types, never FILE_PATH or REGISTRY_KEY,
\* and UNKNOWN exactly when none of the nine patterns matches the value; the
\* record of normalize_and_classify never carries a reserved type either.
C12_TotalFailsClosed ==
    /\ Classified =>
           /\ nc_out.ioc_type \in IoCType \ {"FILE_PATH", "REGISTRY_KEY"}
           /\ nc_out.ioc_type = "UNKNOWN"
                  <=> \A t \in PatternTypes : ~PATTERNS(t, nc_in.value)
    /\ Normalized =>
           nc_out.ioc.ioc_type \in IoCType \ {"FILE_PATH", "REGISTRY_KEY"}

\* C12's case: classify was called on a Windows path or a registry key
C12_Witness ==
    /\ Classified
    /\ \E k \in 1..Len(nc_in.value) : nc_in.value[k] = "\\"
    /\ nc_out.ioc_type = "UNKNOWN"

\* the argument of normalize_and_classify trimmed, its trailing ; and . removed
C13_Cleaned == rstrip(strip(nc_in.value), {";", "."})

\* a defang token stands somewhere in the text
C13_HasToken(string) ==
    \E n \in 1..Len(DEFANG_PATTERNS), k \in 1..Len(string) :
        match_at(string, k, DEFANG_PATTERNS[n].pattern, DEFANG_PATTERNS[n].ignorecase)

\* C13: the record's defanged is true exactly when its value differs from
\* the trimmed input without its trailing ; and . characters, that is when a
\* substitution changed the text; an input with no defang token in it gives
\* defanged = false.
C13_DefangedIffChanged ==
    Normalized =>
        /\ nc_out.ioc.defanged <=> nc_out.ioc.value # C13_Cleaned
        /\ ~C13_HasToken(C13_Cleaned) => ~nc_out.ioc.defanged
        /\ nc_out.ioc.defanged => C13_HasToken(C13_Cleaned)

\* C13's case: a defanged indicator followed by list debris was normalized
C13_Witness ==
    /\ Normalized
    /\ nc_out.ioc.defanged
    /\ C13_Cleaned # strip(nc_in.value)
    /\ nc_out.ioc.ioc_type # "UNKNOWN"

\* C13's other case: only debris was removed from a clean indicator
C13_WitnessClean ==
    /\ Normalized
    /\ ~nc_out.ioc.defanged
    /\ nc_out.ioc.value # nc_in.value
    /\ nc_out.ioc.ioc_type # "UNKNOWN"

\* C14 as claimed: every record has a non-empty original_value.
C14_OriginalValueNonEmpty ==
    Normalized => nc_out.ioc.original_value # <<>>

\* the number a group of decimal digits writes
C15_Digit(c) ==
    CASE c = "0" -> 0 [] c = "1" -> 1 [] c = "2" -> 2 [] c = "3" -> 3
      [] c = "4" -> 4 [] c = "5" -> 5 [] c = "6" -> 6 [] c = "7" -> 7
      [] c = "8" -> 8 [] c = "9" -> 9

RECURSIVE C15_Number(_)
C15_Number(g) ==
    IF g = <<>> THEN 0
    ELSE 10 * C15_Number(SubSeq(g, 1, Len(g) - 1)) + C15_Digit(g[Len(g)])

\* four groups of one to three decimal digits, each writing 0..255,
\* separated by single dots
C15_DottedQuad(value) ==
    LET groups == split(value, ".")
    IN /\ Len(groups) = 4
       /\ \A k \in 1..4 :
              /\ Len(groups[k]) \in 1..3
              /\ all_in(groups[k], Digits)
              /\ C15_Number(groups[k]) \in 0..255

\* C15 as claimed: classify returns IP_ADDRESS exactly for the dotted quads
\* with every octet in 0..255.
C15_IpExactlyDottedQuad ==
    Classified =>
        (nc_out.ioc_type = "IP_ADDRESS" <=> C15_DottedQuad(nc_in.value))

----------------------------------------------------------------------------
(* Properties of the list-after-colon rule.  lac_yielded holds, in order,   *)
(* the index of every paragraph the rule yielded a record for, with the     *)
(* record.                                                                  *)

\* the trimmed text of paragraph k (0-based)
ParagraphText(k) == strip(lac_paragraphs[k + 1])

\* the rule stands in an open list, at a paragraph
InList == lac_pc = "inner" /\ lac_i < Len(lac_paragraphs)

\* this step yields one record, for the paragraph the rule stands at, with
\* the open list's header as context and the given text as original value
YieldsItem(original) ==
    /\ Len(lac_yielded') = Len(lac_yielded) + 1
    /\ SubSeq(lac_yielded', 1, Len(lac_yielded)) = lac_yielded
    /\ LET y == lac_yielded'[Len(lac_yielded')]
       IN /\ y.paragraph = lac_i
          /\ y.ioc.source_context = lac_context
          /\ y.ioc.original_value = original

\* the text of an item before its terminator
BeforeTerminator(text) == strip(SubSeq(text, 1, Len(text) - 1))

\* what C16 says of one step of the rule, the paragraphs made of a terminator
\* alone being yielded (strict) or not
C16_Step(strict) ==
    /\ (InList /\ endswith(lac_text, ";")) =>
           /\ lac_pc' = "inner"
           /\ lac_i' = lac_i + 1
           /\ lac_context' = lac_context
           /\ IF strict \/ BeforeTerminator(lac_text) # <<>>
              THEN YieldsItem(BeforeTerminator(lac_text))
              ELSE lac_yielded' = lac_yielded
    /\ (InList /\ endswith(lac_text, ".")) =>
           /\ lac_pc' = "outer"
           /\ lac_i' = lac_i + 1
           /\ IF strict \/ BeforeTerminator(lac_text) # <<>>
              THEN YieldsItem(BeforeTerminator(lac_text))
              ELSE lac_yielded' = lac_yielded
    /\ lac_pc = "outer" => lac_yielded' = lac_yielded
    /\ (lac_pc = "outer" /\ lac_pc' = "inner") => endswith(lac_text, ":")

\* C16 as claimed: in an open list every non-blank paragraph ending with `;`
\* is yielded with the header as context and keeps the list open, the first
\* one ending with `.` is yielded and closes it, and outside a list nothing
\* is yielded.
C16_EveryItemYielded == [][C16_Step(TRUE)]_vars

\* C16, amended: the same, where a paragraph that is a terminator with
\* nothing before it is not yielded (it still keeps the list open, or
\* closes it).
C16_ItemsYieldedUntilPeriod == [][C16_Step(FALSE)]_vars

\* C16's case: two items of one list were yielded with its header as
\* context, the second ends with `.`, and the paragraph after it, which
\* ends with `;`, was not yielded
C16_Witness ==
    /\ lac_pc = "returned"
    /\ \E m, n \in 1..Len(lac_yielded) :
          /\ m < n
          /\ endswith(ParagraphText(lac_yielded[m].paragraph), ";")
          /\ endswith(ParagraphText(lac_yielded[n].paragraph), ".")
          /\ lac_yielded[m].ioc.source_context = lac_yielded[n].ioc.source_context
          /\ lac_yielded[n].paragraph + 1 < Len(lac_paragraphs)
          /\ endswith(ParagraphText(lac_yielded[n].paragraph + 1), ";")
          /\ \A k \in 1..Len(lac_yielded) :
                 lac_yielded[k].paragraph <= lac_yielded[n].paragraph

\* C17: a non-blank paragraph with no terminator that does not look like an
\* indicator closes the list and stays where the outer scan reads next; read
\* there, a paragraph ending with `:` opens a list with its own text as
\* context; every record is yielded for the paragraph the scan stands at,
\* and the scan never goes back, so the yielded paragraphs strictly increase.
C17_BreakIsReexamined ==
    /\ [][ /\ ( /\ InList
                /\ lac_text # <<>>
                /\ ~endswith(lac_text, ";")
                /\ ~endswith(lac_text, ".")
                /\ ~looks_like_ioc(lac_text) ) =>
                   /\ lac_pc' = "outer"
                   /\ lac_i' = lac_i
                   /\ lac_yielded' = lac_yielded
           /\ ( /\ lac_pc = "outer"
                /\ lac_i < Len(lac_paragraphs)
                /\ endswith(lac_text, ":") ) =>
                   /\ lac_pc' = "inner"
                   /\ lac_context' = lac_text
                   /\ lac_i' = lac_i + 1
           /\ lac_i' >= lac_i
           /\ lac_yielded' # lac_yielded =>
                  /\ lac_i' = lac_i + 1
                  /\ YieldsItem(lac_yielded'[Len(lac_yielded')].ioc.original_value)
         ]_vars
    /\ [](\A m, n \in 1..Len(lac_yielded) :
              m < n => lac_yielded[m].paragraph < lac_yielded[n].paragraph)

\* C17's case: an item ending with `;` left the list open, the next
\* paragraph is a header, and the item after it was yielded with that header
\* as context
C17_Witness ==
    /\ lac_pc = "returned"
    /\ \E m, n \in 1..Len(lac_yielded) :
          LET h == lac_yielded[m].paragraph + 1
          IN /\ endswith(ParagraphText(lac_yielded[m].paragraph), ";")
             /\ lac_yielded[n].paragraph = h + 1
             /\ endswith(ParagraphText(h), ":")
             /\ lac_yielded[n].ioc.source_context = ParagraphText(h)
             /\ lac_yielded[m].ioc.source_context # ParagraphText(h)

\* C18: a blank paragraph in an open list is skipped: nothing is yielded,
\* the list stays open with the same header.
C18_BlankSkipped ==
    [][ (InList /\ all_in(lac_paragraphs[lac_i + 1], Whitespace)) =>
            /\ lac_pc' = "inner"
            /\ lac_i' = lac_i + 1
            /\ lac_context' = lac_context
            /\ lac_yielded' = lac_yielded ]_vars

\* C18's case: an empty and a whitespace-only paragraph stand between the
\* header and an item, and the item was yielded with the header as context
C18_Witness ==
    /\ lac_pc = "returned"
    /\ \E n \in 1..Len(lac_yielded) :
          LET k == lac_yielded[n].paragraph
          IN /\ k >= 3
             /\ {lac_paragraphs[k], lac_paragraphs[k - 1]} = {<<>>, <<" ", " ">>}
             /\ endswith(ParagraphText(k - 3), ":")
             /\ lac_yielded[n].ioc.source_context = ParagraphText(k - 3)

----------------------------------------------------------------------------
(* Properties of TableAfterHeaderRule.extract.                              *)

\* the positions of the body, and what stands at them
Positions == 0..(Len(tah_elements) - 1)
IsTable(k) == tah_element(k).type = "table"
IsHeader(k) ==
    /\ tah_element(k).type = "paragraph"
    /\ \E n \in 1..Len(HEADER_KEYWORDS) :
          contains(str_lower(strip(get_paragraph_text(tah_element(k)))),
                   HEADER_KEYWORDS[n])
BoldOrBlank(k) ==
    /\ tah_element(k).type = "paragraph"
    /\ \/ \E n \in 1..Len(tah_element(k).runs) : tah_element(k).runs[n].bold = "True"
       \/ all_in(get_paragraph_text(tah_element(k)), Whitespace)

\* header h had table t extracted
Extracted(h, t) ==
    \E n \in 1..Len(tah_yielded) :
        tah_yielded[n].header = h /\ tah_yielded[n].table = t

C19_WitnessAbort ==
    /\ tah_pc = "returned"
    /\ \E h \in Positions :
          /\ IsHeader(h) /\ h + 2 \in Positions
          /\ tah_element(h + 1).type = "paragraph" /\ ~BoldOrBlank(h + 1)
          /\ IsTable(h + 2)
          /\ tah_yielded = <<>>

\* the trimmed lines of the paragraphs of cell c in row r of a table: the
\* coordinates <<r, c, p, l>> of those that are to be kept
Line(table, x) == strip(split(table.rows[x[1]][x[2]][x[3]], "\n")[x[4]])
IsHeaderWord(line) == str_lower(line) \in HEADER_WORDS
KeptLines(table) ==
    { x \in UNION { UNION { UNION { { <<r, c, p, l>> :
                l \in 1..Len(split(table.rows[r][c][p], "\n")) } :
            p \in 1..Len(table.rows[r][c]) } :
        c \in 1..Len(table.rows[r]) } :
      r \in 1..Len(table.rows) } :
      Line(table, x) # <<>> /\ ~IsHeaderWord(Line(table, x)) }

\* body order of the coordinates
Before(x, y) ==
    \E n \in 1..4 : x[n] < y[n] /\ \A m \in 1..(n - 1) : x[m] = y[m]

\* C20: of an extracted table, every trimmed line that is not empty and not,
\* lower-cased, a header word is yielded, once and in body order, and nothing
\* else is: no record's original_value is a header word in any casing, and a
\* line that only contains a header word is yielded.
C20_LinesYieldedUnlessHeaderWord ==
    \A n \in 1..Len(tah_yielded) :
        LET table == tah_element(tah_yielded[n].table)
            iocs == tah_yielded[n].iocs
            kept == KeptLines(table)
        IN /\ \A m \in 1..Len(iocs) : ~IsHeaderWord(iocs[m].original_value)
           /\ Len(iocs) = Cardinality(kept)
           /\ \A x \in kept :
                 iocs[Cardinality({y \in kept : Before(y, x)}) + 1].original_value
                     = Line(table, x)

\* C20's case: an extracted table with a cell that is a header word, a line
\* that is a header word among other lines, and a line that contains header
\* words, which was yielded
C20_Witness ==
    \E n \in 1..Len(tah_yielded) :
        LET table == tah_element(tah_yielded[n].table)
            iocs == tah_yielded[n].iocs
        IN /\ \E m \in 1..Len(iocs) :
                 /\ iocs[m].original_value = <<"M", "D", "5", " ", "h", "a", "s", "h">>
                 /\ \E w \in HEADER_WORDS : contains(str_lower(iocs[m].original_value), w)
           /\ \E r \in 1..Len(table.rows) : \E c \in 1..Len(table.rows[r]) :
                 /\ Len(table.rows[r][c]) = 2
                 /\ str_lower(table.rows[r][c][2]) \in HEADER_WORDS
                 /\ \E m \in 1..Len(iocs) : iocs[m].original_value = <<"1", ".", "1", ".", "1", ".", "1", ";">>

----------------------------------------------------------------------------
(* The order of result.iocs.                                                *)

\* the yields that are the first of their (value, type) among those extract
\* does not drop
C22_First == { k \in Kept : \A j \in Kept : j < k => key(log[j].ioc) # key(log[k].ioc) }

\* the position in result.iocs of the record of such a yield
C22_Position(k) == Cardinality({ j \in C22_First : j <= k })

\* C22: result.iocs is the sequence of the records the rules yielded, rule
\* after rule in list order and in each rule's own order, without the
\* filtered UNKNOWN records and with only the first of each (value, type),
\* each carrying the name of the rule that yielded it; so the records of an
\* earlier rule stand before those of a later one.
C22_DiscoveryOrder ==
    /\ \A j, k \in 1..Len(log) : j < k => log[j].ri <= log[k].ri
    /\ \A k \in Yielded : log[k].rule = rules[log[k].ri].name
    /\ Len(result.iocs) = Cardinality(C22_First)
    /\ \A k \in C22_First :
          result.iocs[C22_Position(k)] =
              [log[k].ioc EXCEPT !.rule_extracted = log[k].rule]

\* C22's case: extract is about to return; a later rule yielded a duplicate
\* of an earlier rule's record and, after it, a new record was yielded, which
\* stands in the result behind the earlier rule's, under its own rule's name
C22_Witness ==
    /\ pc = "return"
    /\ \E a, b, c \in Kept :
          /\ a < b /\ b < c
          /\ log[a].ri < log[b].ri /\ log[b].ri <= log[c].ri
          /\ key(log[a].ioc) = key(log[b].ioc)
          /\ a \in C22_First /\ c \in C22_First
          /\ C22_Position(a) < C22_Position(c)
          /\ result.iocs[C22_Position(a)].rule_extracted = log[a].rule
          /\ result.iocs[C22_Position(c)].rule_extracted = log[c].rule
          /\ log[a].rule # log[c].rule

\* C22's case with the filter: an UNKNOWN record yielded first was dropped
\* and the record yielded after it stands first in the result
C22_WitnessFiltered ==
    /\ pc = "return"
    /\ ~pass_unknown
    /\ \E a \in Yielded \ Kept, b \in C22_First : a < b /\ C22_Position(b) = 1

----------------------------------------------------------------------------
(* The debris normalize_and_classify leaves.                                *)

\* C24 as claimed: the value of a record normalize_and_classify returns never
\* ends with `;` or `.`.
C24_NoTrailingSeparator ==
    Normalized => ~endswith(nc_out.ioc.value, ";") /\ ~endswith(nc_out.ioc.value, ".")

----------------------------------------------------------------------------
(* Termination of ListAfterColonRule.extract.                               *)

\* a paragraph is examined by the outer loop, by the inner loop
ExaminedOutside == lac_pc = "outer" /\ lac_i < Len(lac_paragraphs)
ExaminedInside == lac_pc = "inner" /\ lac_i < Len(lac_paragraphs)

\* examinations and loop tests the scan can still make: two for every
\* paragraph from i on, the second one being the outer loop's
C25_Remaining ==
    CASE lac_pc = "idle" -> 2 * Len(lac_paragraphs) + 3
      [] lac_pc = "inner" -> 2 * (Len(lac_paragraphs) - lac_i) + 2
      [] lac_pc = "outer" -> 2 * (Len(lac_paragraphs) - lac_i) + 1
      [] lac_pc = "returned" -> 0

\* C25: the index never decreases; the outer loop passes the paragraph it
\* examines; the inner loop passes it too or hands it, once, to the outer
\* loop; every step uses up what remains to be examined, which is at most two
\* looks per paragraph; the scan ends, with the index at the number of
\* paragraphs.
C25_ScanTerminates ==
    /\ [][lac_i' >= lac_i]_vars
    /\ [][ExaminedOutside => lac_i' = lac_i + 1]_vars
    /\ [][ExaminedInside =>
             \/ lac_i' = lac_i + 1
             \/ lac_i' = lac_i /\ lac_pc' = "outer"]_vars
    /\ [][C25_Remaining' < C25_Remaining]_vars
    /\ [](C25_Remaining >= 0)
    /\ [](lac_pc = "returned" => lac_i = Len(lac_paragraphs))
    /\ <>(lac_pc = "returned")

\* C25's case: the scan is over on a document where a paragraph broke an open
\* list and, being a header itself, opened the next list, whose item was
\* yielded
C25_Witness ==
    /\ lac_pc = "returned"
    /\ lac_i = Len(lac_paragraphs)
    /\ \E n \in 1..Len(lac_yielded) :
          LET h == lac_yielded[n].paragraph - 1
          IN /\ h >= 1
             /\ endswith(ParagraphText(h), ":")
             /\ endswith(ParagraphText(h - 1), ":")
             /\ lac_yielded[n].ioc.source_context = ParagraphText(h)

----------------------------------------------------------------------------
(* Properties of RegexPatternRule.extract.                                  *)

\* the text of match k of the sweep, and the matches taken so far
MatchText(k) == SubSeq(rx_full_text, rx_matches[k].start, rx_matches[k].end - 1)
Taken == 1..rx_k

\* the yields of the rule that extract does not filter
C21_Registered ==
    { n \in 1..Len(rx_yielded) :
        pass_unknown \/ rx_yielded[n].ioc.ioc_type # "UNKNOWN" }

\* C21: the rule yields one record for every distinct matched text, whatever
\* pattern matched it, and none for a text matched again: two yields never
\* have the same matched text, while two spellings of one indicator are two
\* texts and both yielded; of the yields with one (value, type) the result of
\* extract holds the first one only.
C21_DedupByMatchedText ==
    /\ \A k \in Taken : \E n \in 1..Len(rx_yielded) :
          rx_yielded[n].ioc.original_value = MatchText(k)
    /\ \A m, n \in 1..Len(rx_yielded) :
          m # n => rx_yielded[m].ioc.original_value # rx_yielded[n].ioc.original_value
    /\ \A n \in 1..Len(rx_yielded) :
          \E k \in Taken : /\ rx_yielded[n].match = rx_matches[k]
                           /\ rx_yielded[n].ioc.original_value = MatchText(k)
                           /\ \A j \in 1..(k - 1) : MatchText(j) # MatchText(k)
    /\ \A n \in C21_Registered :
          LET first == CHOOSE m \in C21_Registered :
                          /\ key(rx_yielded[m].ioc) = key(rx_yielded[n].ioc)
                          /\ \A j \in C21_Registered :
                                key(rx_yielded[j].ioc) = key(rx_yielded[n].ioc) => m <= j
              held == Holding(key(rx_yielded[n].ioc))
          IN /\ Cardinality(held) = 1
             /\ \A h \in held :
                   result.iocs[h] = [rx_yielded[first].ioc EXCEPT
                                        !.rule_extracted = "regex_pattern"]

\* C21's case: the sweep is over; a text matched twice was yielded once; a
\* defanged and a plain spelling were both yielded, with the same value and
\* type, and the result holds the one yielded first
C21_Witness ==
    /\ rx_pc = "returned"
    /\ \E j, k \in 1..Len(rx_matches) : j # k /\ MatchText(j) = MatchText(k)
    /\ \E m, n \in 1..Len(rx_yielded) :
          /\ m < n
          /\ key(rx_yielded[m].ioc) = key(rx_yielded[n].ioc)
          /\ rx_yielded[m].ioc.defanged /\ ~rx_yielded[n].ioc.defanged
          /\ \E h \in 1..Len(result.iocs) :
                result.iocs[h].original_value = rx_yielded[m].ioc.original_value
          /\ \A h \in 1..Len(result.iocs) :
                result.iocs[h].original_value # rx_yielded[n].ioc.original_value

\* C23 as claimed: once the sweep is over, every paragraph whose whole text
\* is 32, 40, 64 or 128 hexadecimal digits has been yielded as a record with
\* that text as value and the hash type of its length.
C23_WholeParagraphHashYielded ==
    rx_pc = "returned" =>
        \A k \in 1..Len(rx_paragraphs) :
            \A h \in HashLengths :
                (Len(rx_paragraphs[k]) = h[2] /\ all_in(rx_paragraphs[k], HexDigits))
                => \E n \in 1..Len(rx_yielded) :
                      /\ rx_yielded[n].ioc.value = rx_paragraphs[k]
                      /\ rx_yielded[n].ioc.ioc_type = h[1]

====
